---- MODULE Spec2Model ----
(***************************************************************************)
(* websocks: the client's WebSocket connection pool (websocks/client.py,   *)
(* class Pool), the tunnel protocol between the client's WebSocket wrapper *)
(* and the server session (websocks/client.py, websocks/server.py), the    *)
(* only-first combinator both bridges use (websocks/utils.py) and the      *)
(* server's upgrade authentication.                                        *)
(*                                                                         *)
(* Every coroutine is cut at its awaits: one action runs a coroutine from  *)
(* the await it resumes at to the next await it suspends at, as the single *)
(* event loop does.                                                        *)
(***************************************************************************)
EXTENDS Integers, Sequences, FiniteSets, TLC

(***************************************************************************)
(* Bounds of the model.                                                    *)
(***************************************************************************)
InitSize == 1      \* Pool.init_size (N)
MaxConns == 3      \* WebSocket connections websockets.connect may ever yield
NCallers == 2      \* coroutines that acquire and release concurrently
MaxBg == 1         \* background _create tasks pending at once
MaxQueue == 1      \* DATA frames in flight in one direction
MaxCred == 4       \* characters of the text a credentials blob decodes to
MaxCalls == 2      \* calls of rule.judge and rule.add in one run
MaxConnects == 2   \* calls of connect_remote in one run
MaxAdds == 1       \* calls of rule.add around connect_remote
MaxChunks == 2     \* chunks a sender gives in one direction of a bridge
MaxMethods == 2    \* methods a SOCKS5 greeting offers
MaxTries == 2      \* calls of _create by the refill loop in one tick
MaxRequests == 1   \* local connections dispatched in one run

Conns == 1..MaxConns
Callers == 1..NCallers
NoSock == MaxConns + 1    \* the id of no connection

VARIABLES
    free_pool,     \* Pool._free_pool: the idle set
    sock_closed,   \* sock.closed of every connection
    nconn,         \* connections created so far: 1..nconn exist
    bg,            \* background _create tasks awaiting websockets.connect
    caller,        \* per caller: where it is in acquire/release, and its sock
    cp,            \* the clear_pool task: where it is suspended
    c2s,           \* frames sent by the client side, not yet received
    s2c,           \* frames sent by the server side, not yet received
    cl,            \* the client handler that uses the WebSocket
    sv,            \* the server session (_link) of the WebSocket
    hs,            \* the upgrade request of the WebSocket and its answer
    files,         \* the rule files: whitelist, gfwlist and the user's files
    cache,         \* rule.cache: the learned set
    call,          \* the latest call of rule.judge or rule.add and its result
    cr,            \* a call of Client.connect_remote
    br,            \* the two copy tasks of a bridge and the chunks they move
    hd             \* a local connection: its handler, from Client.dispatch on

poolVars == <<nconn, bg, caller, cp>>
tunnelVars == <<c2s, s2c, cl, sv, hs>>
extVars == <<files, cache, call, cr, br, hd>>
vars ==
    <<free_pool, sock_closed, nconn, bg, caller, cp, c2s, s2c, cl, sv, hs,
      files, cache, call, cr, br, hd>>

----------------------------------------------------------------------------
(***************************************************************************)
(* The tunnel on one WebSocket: frames, the two ends, the only-first task  *)
(* pair of a bridge.  The tunnel specifications follow the connection      *)
(* WsConn, which Pool._create has put into the idle set.                    *)
(***************************************************************************)

WsConn == CHOOSE c \in Conns : \A d \in Conns : c <= d

Hosts == {"up", "down"}            \* a target the server can dial, and one it cannot
Dialable(h) == h = "up"
Open(h) == IF Dialable(h) THEN "OPEN_UP" ELSE "OPEN_DOWN"
OpenFrames == {Open(h) : h \in Hosts}
HostOf(f) == CHOOSE h \in Hosts : Open(h) = f

\* binary frames: payload, and the empty payload
Binary == {"DATA", "EMPTY"}
\* text frames: {"HOST":..,"PORT":..}, {"ALLOW":true}, {"ALLOW":false},
\* {"STATUS":"CLOSED"}, and a JSON object with none of these keys
Text == OpenFrames \cup {"ALLOW", "DENY", "CLOSED", "TEXT"}

Tasks == {"up", "down"}            \* the two copy tasks of a bridge
Kinds == {"bridge", "http"}        \* Client.bridge, or http_default's gather

NoBridge ==
    [st |-> [t \in Tasks |-> "none"], fin |-> 0, cb |-> {}, res |-> "none"]
NewBridge ==
    [st |-> [t \in Tasks |-> "run"], fin |-> 0, cb |-> {}, res |-> "none"]

ClientIdle ==
    [pc |-> "idle", kind |-> "none", status |-> 1, of |-> NoBridge,
     sentClose |-> FALSE, gotClose |-> FALSE, used |-> FALSE, badText |-> FALSE]

ServerIdle ==
    [pc |-> "wait_open", host |-> "none", of |-> NoBridge, prev |-> "none",
     badText |-> FALSE, badOpen |-> FALSE]

\* A header value is a sequence of units: the space character, a scheme
\* word, or a run of base64 text, which is written as the text it decodes to
Space == [kind |-> "sp", text |-> <<>>]
Word(w) == [kind |-> "word", text |-> <<w>>]
B64(t) == [kind |-> "b64", text |-> t]

CredChars == {"a", "b", ":"}
CredTexts == UNION {[1..n -> CredChars] : n \in 1..MaxCred}
Words == {Word("Basic"), Word("Bearer")}
Blobs == {B64(t) : t \in CredTexts}

\* the server's userlist: one user "a" whose password is "b"
userlist == [u \in {<<"a">>} |-> <<"b">>]

\* Pool.__init__: "Basic " + base64(username:password), of the user above
get_credentials == <<Word("Basic"), Space, B64(<<"a", ":", "b">>)>>
Accepted == [present |-> TRUE, value |-> get_credentials, resp |-> "None"]

\* Strings are sequences of characters; an IP literal and the name
\* google.com are written as one unit each
StartsWith(s, pre) == Len(pre) <= Len(s) /\ SubSeq(s, 1, Len(pre)) = pre
EndsWith(s, suf) ==
    Len(suf) <= Len(s) /\ SubSeq(s, Len(s) - Len(suf) + 1, Len(s)) = suf
From(s, i) == SubSeq(s, i, Len(s))          \* s[i-1:] of Python

\* no rule file on disk: FilterRule.open yields nothing
NoFiles == [whitelist |-> <<>>, gfwlist |-> <<>>, yourselfs |-> <<>>]
NoCall == [op |-> "none", host |-> <<>>, result |-> "None", n |-> 0]
CrIdle ==
    [pc |-> "idle", policy |-> "AUTO", host |-> <<>>, ip |-> <<>>,
     need |-> "None", dialed |-> {}, remote |-> "none", n |-> 0]
BrIdle ==
    [kind |-> "none", of |-> NoBridge,
     task |-> [t \in Tasks |->
                  [pc |-> "none", read |-> <<>>, written |-> <<>>]]]
HdIdle ==
    [pc |-> "idle", proto |-> "none", data |-> <<>>, rest |-> <<>>,
     count |-> 0, req |-> <<>>, out |-> <<>>, host |-> <<>>,
     remote |-> "none", n |-> 0, reqs |-> 0]
ExtIdle ==
    /\ files = NoFiles
    /\ cache = {}
    /\ call = NoCall
    /\ cr = CrIdle
    /\ br = BrIdle
    /\ hd = HdIdle

----------------------------------------------------------------------------
(***************************************************************************)
(* Pool                                                                    *)
(***************************************************************************)

\* set.pop() with the element it happened to take: the element leaves the set
PopKeep(fp, s) == fp
Pop(fp, s) == fp \ {s}

\* sock.closed as acquire and release read it
SockClosedNever(s) == FALSE
SockClosed(s) == sock_closed[s]

\* the trim loop's guard of clear_pool
TrimNeededOff(fp) == Cardinality(fp) > InitSize * 2 + 1
TrimNeeded(fp) == Cardinality(fp) > InitSize * 2

\* the refill loop's guard of clear_pool
RefillNeededNever(fp) == FALSE
RefillNeeded(fp) == Cardinality(fp) < InitSize

CallerAt(k, pc, s) == [caller EXCEPT ![k] = [pc |-> pc, sock |-> s]]

\* Pool.acquire from the top of its loop to its next await or its return,
\* the idle set being fp
AcquireLoop(k, fp) ==
    IF fp = {}
    THEN \* KeyError: await self._create()
         /\ free_pool' = fp
         /\ caller' = CallerAt(k, "acq_create", NoSock)
         /\ bg' = bg
    ELSE \E s \in fp :
            IF SockClosed(s)
            THEN \* await sock.close(); continue
                 /\ free_pool' = Pop(fp, s)
                 /\ caller' = CallerAt(k, "acq_close", s)
                 /\ bg' = bg
            ELSE \* refill in the background when short, and return sock
                 /\ free_pool' = Pop(fp, s)
                 /\ IF InitSize > Cardinality(Pop(fp, s))
                    THEN bg < MaxBg /\ bg' = bg + 1
                    ELSE bg' = bg
                 /\ caller' = CallerAt(k, "holding", s)

\* a caller enters Pool.acquire
Acquire(k) ==
    /\ caller[k].pc = "idle"
    /\ AcquireLoop(k, free_pool)
    /\ UNCHANGED <<sock_closed, nconn, cp, c2s, s2c, cl, sv, hs, extVars>>

\* acquire's own `await self._create()` ends: the new connection joins the
\* idle set (or the connect failed and was logged) and the loop goes round
AcquireCreated(k) ==
    /\ caller[k].pc = "acq_create"
    /\ \/ /\ nconn < MaxConns
          /\ nconn' = nconn + 1
          /\ AcquireLoop(k, free_pool \cup {nconn + 1})
       \/ /\ nconn' = nconn
          /\ AcquireLoop(k, free_pool)
    /\ UNCHANGED <<sock_closed, cp, c2s, s2c, cl, sv, hs, extVars>>

\* acquire's `await sock.close()` of a dead connection ends; continue
AcquireClosedDead(k) ==
    /\ caller[k].pc = "acq_close"
    /\ AcquireLoop(k, free_pool)
    /\ UNCHANGED <<sock_closed, nconn, cp, c2s, s2c, cl, sv, hs, extVars>>

\* Pool.release(sock), the last statement of WebSocket.close
ReleasedAny(fp, s) == fp \cup {s}
ReleasedDead(fp, s) == IF SockClosed(s) THEN fp \cup {s} ELSE fp
Released(fp, s) == IF SockClosed(s) THEN fp ELSE fp \cup {s}

Release(k) ==
    /\ caller[k].pc = "holding"
    /\ free_pool' = Released(free_pool, caller[k].sock)
    /\ caller' = CallerAt(k, "idle", NoSock)
    /\ UNCHANGED <<sock_closed, nconn, bg, cp, c2s, s2c, cl, sv, hs, extVars>>

\* the holder ends without reaching release: WebSocket.close returns early
\* on ConnectionClosed, or the handler ends on an exception
Abandon(k) ==
    /\ caller[k].pc = "holding"
    /\ caller' = CallerAt(k, "idle", NoSock)
    /\ UNCHANGED <<free_pool, sock_closed, nconn, bg, cp, c2s, s2c, cl, sv, hs, extVars>>

\* Pool._create run as a background task by acquire
BgCreate ==
    /\ bg > 0
    /\ bg' = bg - 1
    /\ \/ /\ nconn < MaxConns
          /\ nconn' = nconn + 1
          /\ free_pool' = free_pool \cup {nconn + 1}
       \/ UNCHANGED <<nconn, free_pool>>
    /\ UNCHANGED <<sock_closed, caller, cp, c2s, s2c, cl, sv, hs, extVars>>

\* the peer or the network drops an open connection
Drop(c) ==
    /\ c <= nconn
    /\ ~sock_closed[c]
    /\ sock_closed' = [sock_closed EXCEPT ![c] = TRUE]
    /\ UNCHANGED <<free_pool, nconn, bg, caller, cp, c2s, s2c, cl, sv, hs, extVars>>

\* tries counts the calls of _create the refill loop has made in the tick
CpAt(pc, cur, todo, tick) ==
    [pc |-> pc, cur |-> cur, todo |-> todo, tick |-> tick, tries |-> 0]

\* clear_pool's refill loop, from its test: it awaits a _create, or the tick
\* is over and the task sleeps
CpRefill(fp, tick, tries) ==
    /\ free_pool' = fp
    /\ cp' = IF RefillNeeded(fp)
             THEN [CpAt("refill_create", NoSock, {}, tick)
                      EXCEPT !.tries = tries + 1]
             ELSE CpAt("sleep", NoSock, {}, tick)

\* clear_pool's trim loop, from its test
CpTrim(fp, tick) ==
    IF TrimNeeded(fp)
    THEN \E s \in fp :
            /\ free_pool' = Pop(fp, s)
            /\ cp' = CpAt("trim_close", s, {}, tick)
    ELSE CpRefill(fp, tick, 0)

\* clear_pool's scan of tuple(self._free_pool), todo being the part of the
\* snapshot not yet visited: it suspends at the first dead connection met
CpScan(fp, todo, tick) ==
    IF \E d \in todo : sock_closed[d]
    THEN \E d \in {x \in todo : sock_closed[x]} :
         \E skipped \in SUBSET {x \in todo : ~sock_closed[x]} :
            /\ free_pool' = fp
            /\ cp' = CpAt("scan_close", d, todo \ ({d} \cup skipped), tick)
    ELSE CpTrim(fp, tick)

\* asyncio.sleep(7) ends: a maintenance tick starts
CpWake ==
    /\ cp.pc = "sleep"
    /\ CpScan(free_pool, free_pool, 1 - cp.tick)
    /\ UNCHANGED <<sock_closed, nconn, bg, caller, c2s, s2c, cl, sv, hs, extVars>>

\* the scan's `await sock.close()` ends; self._free_pool.remove(sock) raises
\* KeyError when the connection has left the set meanwhile
CpScanClosed ==
    /\ cp.pc = "scan_close"
    /\ IF cp.cur \in free_pool
       THEN CpScan(free_pool \ {cp.cur}, cp.todo, cp.tick)
       ELSE /\ cp' = CpAt("crashed", NoSock, {}, cp.tick)
            /\ UNCHANGED free_pool
    /\ UNCHANGED <<sock_closed, nconn, bg, caller, c2s, s2c, cl, sv, hs, extVars>>

\* the trim's `await sock.close()` ends: the popped connection is closed
CpTrimClosed ==
    /\ cp.pc = "trim_close"
    /\ CpTrim(free_pool, cp.tick)
    /\ sock_closed' = [sock_closed EXCEPT ![cp.cur] = TRUE]
    /\ UNCHANGED <<nconn, bg, caller, c2s, s2c, cl, sv, hs, extVars>>

\* the refill's `await self._create()` ends, with a connection or without
\* (_create has logged the error); the loop tests again
CpRefillCreated ==
    /\ cp.pc = "refill_create"
    /\ \/ /\ nconn < MaxConns
          /\ nconn' = nconn + 1
          /\ CpRefill(free_pool \cup {nconn + 1}, cp.tick, cp.tries)
       \/ /\ cp.tries < MaxTries
          /\ nconn' = nconn
          /\ CpRefill(free_pool, cp.tick, cp.tries)
    /\ UNCHANGED <<sock_closed, bg, caller, c2s, s2c, cl, sv, hs, extVars>>

PoolInit ==
    /\ free_pool = {}
    /\ sock_closed = [c \in Conns |-> FALSE]
    /\ nconn = 0
    /\ bg = 0
    /\ caller = [k \in Callers |-> [pc |-> "idle", sock |-> NoSock]]
    /\ cp = CpAt("sleep", NoSock, {}, 0)
    /\ c2s = <<>>
    /\ s2c = <<>>
    /\ cl = ClientIdle
    /\ sv = ServerIdle
    /\ hs = Accepted
    /\ ExtIdle

PoolNext ==
    \/ \E k \in Callers : Acquire(k)
    \/ \E k \in Callers : AcquireCreated(k)
    \/ \E k \in Callers : AcquireClosedDead(k)
    \/ \E k \in Callers : Release(k)
    \/ \E k \in Callers : Abandon(k)
    \/ BgCreate
    \/ \E c \in Conns : Drop(c)
    \/ CpWake
    \/ CpScanClosed
    \/ CpTrimClosed
    \/ CpRefillCreated

SpecPool == PoolInit /\ [][PoolNext]_vars

\* the pool when acquire, release and the background creates run only
\* while clear_pool sleeps: a maintenance tick is then suspended by nothing
\* but its own closes and creates, and connections may drop at any moment
QuietTickNext ==
    \/ cp.pc = "sleep" /\ \E k \in Callers : Acquire(k)
    \/ cp.pc = "sleep" /\ \E k \in Callers : AcquireCreated(k)
    \/ cp.pc = "sleep" /\ \E k \in Callers : AcquireClosedDead(k)
    \/ cp.pc = "sleep" /\ \E k \in Callers : Release(k)
    \/ cp.pc = "sleep" /\ \E k \in Callers : Abandon(k)
    \/ cp.pc = "sleep" /\ BgCreate
    \/ \E c \in Conns : Drop(c)
    \/ CpWake
    \/ CpScanClosed
    \/ CpTrimClosed
    \/ CpRefillCreated

SpecQuietTick == PoolInit /\ [][QuietTickNext]_vars

----------------------------------------------------------------------------
(***************************************************************************)
(* onlyfirst (websocks/utils.py)                                           *)
(***************************************************************************)

\* a task that ended by raising something other than CancelledError
IsExc(st) == st \notin {"none", "run", "ok", "cancelled"}

\* a task of an onlyfirst pair ends: its done callback is scheduled
TaskEnds(o, t, st) == [o EXCEPT !.st[t] = st, !.cb = @ \cup {t}]

\* a task of http_default's gather ends (no callback of onlyfirst)
TaskEndsIn(kind, o, t, st) ==
    IF kind = "bridge" THEN TaskEnds(o, t, st) ELSE [o EXCEPT !.st[t] = st]

DoneCallbackFirst(o, t) ==
    [o EXCEPT !.fin = @ + 1, !.cb = @ \ {t}, !.res = "ok"]

\* onlyfirst._done_callback(fut).  fut.result() re-raises the exception of
\* a failed task: the callback ends there, before it counts the task,
\* cancels the others or resolves the result.  Otherwise it counts the task,
\* cancels every task still running, and resolves the result once all the
\* tasks are counted.  A cancelled task acts no more; its own callback is
\* scheduled.
DoneCallback(o, t) ==
    IF IsExc(o.st[t])
    THEN [o EXCEPT !.cb = @ \ {t}]
    ELSE LET running == {x \in Tasks : o.st[x] = "run"}
             fin == o.fin + 1
         IN  [st  |-> [x \in Tasks |->
                          IF x \in running THEN "cancelled" ELSE o.st[x]],
              fin |-> fin,
              cb  |-> (o.cb \ {t}) \cup running,
              res |-> IF fin = Cardinality(Tasks) THEN "ok" ELSE o.res]

----------------------------------------------------------------------------
(***************************************************************************)
(* Client: WebSocket.create_connection, the handler's bridge or gather,    *)
(* WebSocket.recv / send / close (websocks/client.py)                      *)
(***************************************************************************)

WsClosed == sock_closed[WsConn]

\* the handler ends on an exception; nothing closes or releases the sock
ClientFails == [cl EXCEPT !.pc = "failed"]

\* create_connection: acquire (here: of WsConn) and send OPEN
ClientConnect(kind, host) ==
    /\ cl.pc \in {"idle", "done"}
    /\ WsConn \in free_pool
    /\ free_pool' = Pop(free_pool, WsConn)
    /\ IF SockClosed(WsConn)
       THEN \* acquire closes the dead connection and goes on to another
            /\ cl' = [cl EXCEPT !.pc = "lost"]
            /\ UNCHANGED c2s
       ELSE /\ c2s' = Append(c2s, Open(host))
            /\ cl' = [ClientIdle EXCEPT !.pc = "wait_ack", !.kind = kind,
                                        !.used = TRUE, !.badText = cl.badText]
    /\ UNCHANGED <<sock_closed, s2c, sv, poolVars, hs, extVars>>

\* create_connection: resp = await sock.recv()
ClientRecvAck ==
    /\ cl.pc = "wait_ack"
    /\ \/ /\ s2c # <<>>
          /\ s2c' = Tail(s2c)
          /\ CASE Head(s2c) = "ALLOW" ->
                    /\ cl' = [cl EXCEPT !.pc = "open", !.of = NewBridge]
                    /\ UNCHANGED c2s
               [] Head(s2c) = "DENY" ->
                    IF WsClosed
                    THEN cl' = ClientFails /\ UNCHANGED c2s
                    ELSE /\ c2s' = Append(c2s, "CLOSED")
                         /\ cl' = [cl EXCEPT !.pc = "deny_wait",
                                             !.sentClose = TRUE]
               [] OTHER ->
                    \* binary, or text without "ALLOW"
                    cl' = ClientFails /\ UNCHANGED c2s
       \/ /\ s2c = <<>>
          /\ WsClosed
          /\ cl' = ClientFails
          /\ UNCHANGED <<c2s, s2c>>
    /\ UNCHANGED <<free_pool, sock_closed, sv, poolVars, hs, extVars>>

\* what create_connection does once the server's CLOSE has arrived after a
\* denied OPEN: raise WebSocksRefused
Refused(c) == [c EXCEPT !.pc = "refused", !.gotClose = TRUE]

\* create_connection after ALLOW false: recv until a text frame
ClientDenyRecv ==
    /\ cl.pc = "deny_wait"
    /\ \/ /\ s2c # <<>>
          /\ s2c' = Tail(s2c)
          /\ cl' = CASE Head(s2c) \in Binary -> cl
                      [] Head(s2c) = "CLOSED" -> Refused(cl)
                      [] OTHER -> ClientFails
       \/ /\ s2c = <<>>
          /\ WsClosed
          /\ cl' = ClientFails
          /\ UNCHANGED s2c
    /\ UNCHANGED <<free_pool, sock_closed, c2s, sv, poolVars, hs, extVars>>

\* the copy task local -> WebSocket forwards bytes: WebSocket.send
ClientUpData ==
    /\ cl.pc = "open"
    /\ cl.of.st["up"] = "run"
    /\ IF WsClosed
       THEN \* ConnectionResetError: swallowed by Client.bridge's task,
            \* raised out of http_default's server_task
            /\ cl' = [cl EXCEPT !.status = 0,
                                !.of = TaskEndsIn(cl.kind, @, "up",
                                    IF cl.kind = "bridge" THEN "ok" ELSE "OSError")]
            /\ UNCHANGED c2s
       ELSE /\ Len(c2s) < MaxQueue
            /\ c2s' = Append(c2s, "DATA")
            /\ UNCHANGED cl
    /\ UNCHANGED <<free_pool, sock_closed, s2c, sv, poolVars, hs, extVars>>

\* the local TCP peer ends: Client.bridge's task breaks on b""; server_task
\* of http_default sends client.send(EndOfMessage()) and breaks
ClientUpEnds ==
    /\ cl.pc = "open"
    /\ cl.of.st["up"] = "run"
    /\ IF cl.kind = "bridge"
       THEN /\ cl' = [cl EXCEPT !.of = TaskEnds(@, "up", "ok")]
            /\ UNCHANGED c2s
       ELSE IF WsClosed
            THEN /\ cl' = [cl EXCEPT !.status = 0, !.of.st["up"] = "OSError"]
                 /\ UNCHANGED c2s
            ELSE \E f \in Binary :
                    /\ c2s' = Append(c2s, f)
                    /\ cl' = [cl EXCEPT !.of.st["up"] = "ok"]
    /\ UNCHANGED <<free_pool, sock_closed, s2c, sv, poolVars, hs, extVars>>

\* WebSocket.recv of a text frame while the tunnel is open: CLOSED ends the
\* tunnel, any other text raises WebSocksImplementationError
RecvText(c, f) ==
    IF f = "CLOSED"
    THEN [c EXCEPT !.status = 0, !.gotClose = TRUE,
                   !.of = TaskEndsIn(c.kind, @, "down", "ok")]
    ELSE [c EXCEPT !.badText = TRUE,
                   !.of = TaskEndsIn(c.kind, @, "down", "ImplError")]

\* the copy task WebSocket -> local: data = await sender.recv()
ClientDownRecv ==
    /\ cl.pc = "open"
    /\ cl.of.st["down"] = "run"
    /\ \/ /\ cl.status = 0
          /\ cl' = [cl EXCEPT !.of = TaskEndsIn(cl.kind, @, "down", "ok")]
          /\ UNCHANGED s2c
       \/ /\ cl.status # 0
          /\ s2c # <<>>
          /\ s2c' = Tail(s2c)
          /\ cl' = CASE Head(s2c) = "DATA" -> cl
                      [] Head(s2c) = "EMPTY" ->
                            [cl EXCEPT !.of = TaskEndsIn(cl.kind, @, "down", "ok")]
                      [] OTHER -> RecvText(cl, Head(s2c))
       \/ /\ cl.status # 0
          /\ s2c = <<>>
          /\ WsClosed
          /\ cl' = [cl EXCEPT !.status = 0,
                              !.of = TaskEndsIn(cl.kind, @, "down", "ok")]
          /\ UNCHANGED s2c
    /\ UNCHANGED <<free_pool, sock_closed, c2s, sv, poolVars, hs, extVars>>

\* client_task of http_default sees the end of the response and breaks
ClientDownEnds ==
    /\ cl.pc = "open"
    /\ cl.kind = "http"
    /\ cl.of.st["down"] = "run"
    /\ cl' = [cl EXCEPT !.of.st["down"] = "ok"]
    /\ UNCHANGED <<free_pool, sock_closed, c2s, s2c, sv, poolVars, hs, extVars>>

ClientCloseNoWait(c) ==
    /\ c2s' = Append(c2s, "CLOSED")
    /\ cl' = [c EXCEPT !.pc = "done", !.sentClose = TRUE]
    /\ free_pool' = Released(free_pool, WsConn)

\* WebSocket.close from its first statement to its first recv or its end,
\* c being the client after the bridge or the gather has returned
ClientClose(c) ==
    IF WsClosed
    THEN \* send raises ConnectionClosed: return
         /\ cl' = [c EXCEPT !.pc = "done"]
         /\ UNCHANGED <<c2s, free_pool>>
    ELSE /\ c2s' = Append(c2s, "CLOSED")
         /\ IF c.status = 0
            THEN /\ cl' = [c EXCEPT !.pc = "done", !.sentClose = TRUE]
                 /\ free_pool' = Released(free_pool, WsConn)
            ELSE /\ cl' = [c EXCEPT !.pc = "close_wait", !.sentClose = TRUE]
                 /\ UNCHANGED free_pool

\* a done callback of Client.bridge's onlyfirst runs; when it resolves the
\* result, bridge returns and the handler calls remote.close()
ClientCallback(t) ==
    /\ cl.pc = "open"
    /\ cl.kind = "bridge"
    /\ t \in cl.of.cb
    /\ LET o == DoneCallback(cl.of, t) IN
         IF o.res = "none"
         THEN /\ cl' = [cl EXCEPT !.of = o]
              /\ UNCHANGED <<c2s, free_pool>>
         ELSE ClientClose([cl EXCEPT !.of = o])
    /\ UNCHANGED <<sock_closed, s2c, sv, poolVars, hs, extVars>>

\* both tasks of http_default's gather have ended: finally remote.close()
ClientGatherDone ==
    /\ cl.pc = "open"
    /\ cl.kind = "http"
    /\ \A t \in Tasks : cl.of.st[t] # "run"
    /\ ClientClose(cl)
    /\ UNCHANGED <<sock_closed, s2c, sv, poolVars, hs, extVars>>

\* WebSocket.close: `while not self.closed: await self.recv()`, then release
ClientCloseRecv ==
    /\ cl.pc = "close_wait"
    /\ \/ /\ s2c # <<>>
          /\ s2c' = Tail(s2c)
          /\ CASE Head(s2c) \in Binary ->
                    IF WsClosed
                    THEN /\ cl' = [cl EXCEPT !.pc = "done"]
                         /\ free_pool' = Released(free_pool, WsConn)
                    ELSE UNCHANGED <<cl, free_pool>>
               [] Head(s2c) = "CLOSED" ->
                    /\ cl' = [cl EXCEPT !.pc = "done", !.status = 0,
                                        !.gotClose = TRUE]
                    /\ free_pool' = Released(free_pool, WsConn)
               [] OTHER ->
                    \* WebSocksImplementationError leaves close
                    /\ cl' = ClientFails
                    /\ UNCHANGED free_pool
       \/ /\ s2c = <<>>
          /\ WsClosed
          /\ cl' = [cl EXCEPT !.pc = "done", !.status = 0]
          /\ free_pool' = Released(free_pool, WsConn)
          /\ UNCHANGED s2c
    /\ UNCHANGED <<sock_closed, c2s, sv, poolVars, hs, extVars>>

----------------------------------------------------------------------------
(***************************************************************************)
(* Server: Server._link and bridge (websocks/server.py)                    *)
(***************************************************************************)

\* _link leaves its loop: finally `await sock.close()`
SrvCloses(v) ==
    /\ sv' = [v EXCEPT !.pc = "closed"]
    /\ sock_closed' = [sock_closed EXCEPT ![WsConn] = TRUE]

\* _link: data = await sock.recv() where an OPEN is expected.  A binary
\* frame fails the assert; a text frame without "HOST" raises KeyError
SrvRecvOpen ==
    /\ sv.pc = "wait_open"
    /\ \/ /\ c2s # <<>>
          /\ c2s' = Tail(c2s)
          /\ IF Head(c2s) \in OpenFrames
             THEN /\ sv' = [sv EXCEPT !.pc = "dialing",
                                      !.host = HostOf(Head(c2s))]
                  /\ UNCHANGED sock_closed
             ELSE SrvCloses([sv EXCEPT !.badOpen = TRUE])
       \/ /\ c2s = <<>>
          /\ WsClosed
          /\ SrvCloses(sv)
          /\ UNCHANGED c2s
    /\ UNCHANGED <<free_pool, s2c, cl, poolVars, hs, extVars>>

\* the frames _link sends after a dial that failed: ALLOW false, and, as
\* websocks_has_closed is False, CLOSED
DenyFramesNoClose == <<"DENY">>
DenyFrames == <<"DENY", "CLOSED">>

\* _link: TCPSocket.create_connection returns or raises
SrvDialed ==
    /\ sv.pc = "dialing"
    /\ IF WsClosed
       THEN \* sock.send raises ConnectionClosed
            /\ SrvCloses(sv)
            /\ UNCHANGED s2c
       ELSE /\ IF Dialable(sv.host)
               THEN /\ s2c' = Append(s2c, "ALLOW")
                    /\ sv' = [sv EXCEPT !.pc = "bridge", !.of = NewBridge]
               ELSE /\ s2c' = s2c \o DenyFrames
                    /\ sv' = [sv EXCEPT !.pc = "wait_close"]
            /\ UNCHANGED sock_closed
    /\ UNCHANGED <<free_pool, c2s, cl, poolVars, hs, extVars>>

\* _bridge(alice, bob) on the server: a frame of the WebSocket goes to the
\* outbound TCP.  An empty payload returns; TCPSocket.send of a str raises
\* TypeError at StreamWriter.write, whatever the text says
SrvUpRecv ==
    /\ sv.pc = "bridge"
    /\ sv.of.st["up"] = "run"
    /\ \/ /\ c2s # <<>>
          /\ c2s' = Tail(c2s)
          /\ sv' = CASE Head(c2s) = "DATA" -> sv
                      [] Head(c2s) = "EMPTY" ->
                            [sv EXCEPT !.of = TaskEnds(@, "up", "ok")]
                      [] Head(c2s) = "CLOSED" ->
                            [sv EXCEPT !.of = TaskEnds(@, "up", "TypeError")]
                      [] OTHER ->
                            [sv EXCEPT !.badText = TRUE,
                                       !.of = TaskEnds(@, "up", "TypeError")]
       \/ /\ c2s = <<>>
          /\ WsClosed
          /\ sv' = [sv EXCEPT !.of = TaskEnds(@, "up", "ConnectionClosed")]
          /\ UNCHANGED c2s
    /\ UNCHANGED <<free_pool, sock_closed, s2c, cl, poolVars, hs, extVars>>

\* _bridge(bob, alice) on the server: bytes of the outbound TCP go to the
\* WebSocket
SrvDownData ==
    /\ sv.pc = "bridge"
    /\ sv.of.st["down"] = "run"
    /\ IF WsClosed
       THEN /\ sv' = [sv EXCEPT !.of = TaskEnds(@, "down", "ConnectionClosed")]
            /\ UNCHANGED s2c
       ELSE /\ Len(s2c) < MaxQueue
            /\ s2c' = Append(s2c, "DATA")
            /\ UNCHANGED sv
    /\ UNCHANGED <<free_pool, sock_closed, c2s, cl, poolVars, hs, extVars>>

\* the outbound TCP ends: _bridge(bob, alice) returns on b""
SrvDownEnds ==
    /\ sv.pc = "bridge"
    /\ sv.of.st["down"] = "run"
    /\ sv' = [sv EXCEPT !.of = TaskEnds(@, "down", "ok")]
    /\ UNCHANGED <<free_pool, sock_closed, c2s, s2c, cl, poolVars, hs, extVars>>

\* a done callback of the server bridge's onlyfirst runs.  When it resolves
\* the result, bridge returns to _link: remote.close(), ConnectionClosed if
\* the sock is closed, else CLOSED is sent and the peer's CLOSE awaited.
\* (The result is never an exception, see DoneCallback: the `except
\* TypeError` of _link and the `except OSError` of bridge are never entered.)
SrvCallback(t) ==
    /\ sv.pc = "bridge"
    /\ t \in sv.of.cb
    /\ LET o == DoneCallback(sv.of, t) IN
         IF o.res = "none"
         THEN /\ sv' = [sv EXCEPT !.of = o]
              /\ UNCHANGED <<s2c, sock_closed>>
         ELSE IF WsClosed
              THEN /\ SrvCloses([sv EXCEPT !.of = o])
                   /\ UNCHANGED s2c
              ELSE /\ s2c' = Append(s2c, "CLOSED")
                   /\ sv' = [sv EXCEPT !.of = o, !.pc = "wait_close"]
                   /\ UNCHANGED sock_closed
    /\ UNCHANGED <<free_pool, c2s, cl, poolVars, hs, extVars>>

\* _link: recv until a text frame, assert it is CLOSED, loop
SrvCloseRecv ==
    /\ sv.pc = "wait_close"
    /\ \/ /\ c2s # <<>>
          /\ c2s' = Tail(c2s)
          /\ CASE Head(c2s) \in Binary -> UNCHANGED <<sv, sock_closed>>
               [] Head(c2s) = "CLOSED" ->
                    /\ sv' = [sv EXCEPT !.pc = "wait_open", !.of = NoBridge,
                                        !.prev = IF Dialable(sv.host)
                                                 THEN "bridged" ELSE "denied"]
                    /\ UNCHANGED sock_closed
               [] OTHER -> SrvCloses(sv)
       \/ /\ c2s = <<>>
          /\ WsClosed
          /\ SrvCloses(sv)
          /\ UNCHANGED c2s
    /\ UNCHANGED <<free_pool, s2c, cl, poolVars, hs, extVars>>

----------------------------------------------------------------------------
(***************************************************************************)
(* The peers of the code: a server peer that sends a text frame outside    *)
(* the protocol, a client peer that sends a frame of its own               *)
(***************************************************************************)

ForeignToClient ==
    /\ ~WsClosed
    /\ Len(s2c) < MaxQueue
    /\ s2c' = Append(s2c, "TEXT")
    /\ UNCHANGED <<free_pool, sock_closed, c2s, cl, sv, poolVars, hs, extVars>>

ForeignToServer(f) ==
    /\ ~WsClosed
    /\ Len(c2s) < MaxQueue
    /\ c2s' = Append(c2s, f)
    /\ UNCHANGED <<free_pool, sock_closed, s2c, cl, sv, poolVars, hs, extVars>>

\* the socket of a denied OPEN, which the client no longer uses, is used
\* for another OPEN once the CLOSE handshake is over
PeerReopens ==
    /\ cl.pc = "refused"
    /\ sv.pc = "wait_open"
    /\ c2s = <<>>
    /\ ForeignToServer(Open("up"))

TunnelInit ==
    /\ free_pool = {WsConn}
    /\ sock_closed = [c \in Conns |-> FALSE]
    /\ nconn = Cardinality({WsConn})
    /\ bg = 0
    /\ caller = [k \in Callers |-> [pc |-> "idle", sock |-> NoSock]]
    /\ cp = CpAt("sleep", NoSock, {}, 0)
    /\ c2s = <<>>
    /\ s2c = <<>>
    /\ cl = ClientIdle
    /\ sv = ServerIdle
    /\ hs = Accepted
    /\ ExtIdle

TunnelNext ==
    \/ \E kind \in Kinds, h \in Hosts : ClientConnect(kind, h)
    \/ ClientRecvAck
    \/ ClientDenyRecv
    \/ ClientUpData
    \/ ClientUpEnds
    \/ ClientDownRecv
    \/ ClientDownEnds
    \/ \E t \in Tasks : ClientCallback(t)
    \/ ClientGatherDone
    \/ ClientCloseRecv
    \/ SrvRecvOpen
    \/ SrvDialed
    \/ SrvUpRecv
    \/ SrvDownData
    \/ SrvDownEnds
    \/ \E t \in Tasks : SrvCallback(t)
    \/ SrvCloseRecv
    \/ Drop(WsConn)
    \/ ForeignToClient
    \/ \E f \in {"TEXT", Open("up")} : ForeignToServer(f)

\* the tunnel with the code at both ends, peers that keep to the protocol
\* and a network that drops or injects
SpecTunnel == TunnelInit /\ [][TunnelNext]_vars

\* the steps the event loop takes by itself once their input is there
ProtocolNext ==
    \/ ClientRecvAck
    \/ ClientDenyRecv
    \/ ClientDownRecv
    \/ \E t \in Tasks : ClientCallback(t)
    \/ ClientGatherDone
    \/ ClientCloseRecv
    \/ SrvRecvOpen
    \/ SrvDialed
    \/ SrvUpRecv
    \/ \E t \in Tasks : SrvCallback(t)
    \/ SrvCloseRecv

FairNext ==
    \/ \E kind \in Kinds, h \in Hosts : ClientConnect(kind, h)
    \/ ClientUpData
    \/ ClientUpEnds
    \/ ClientDownEnds
    \/ SrvDownData
    \/ SrvDownEnds
    \/ PeerReopens
    \/ ProtocolNext

\* the tunnel on a WebSocket that is not dropped, between the client and
\* the server of this repository; every coroutine that can run does run
FairTunnel == TunnelInit /\ [][FairNext]_vars /\ WF_vars(ProtocolNext)

----------------------------------------------------------------------------
(***************************************************************************)
(* The upgrade request: the Authorization header and Server.handshake      *)
(***************************************************************************)

\* str.split(sep): the pieces between the occurrences of sep
RECURSIVE Split(_, _)
Split(s, sep) ==
    IF \A i \in 1..Len(s) : s[i] # sep
    THEN <<s>>
    ELSE LET i == CHOOSE j \in 1..Len(s) :
                      s[j] = sep /\ \A k \in 1..(j - 1) : s[k] # sep
         IN  <<SubSeq(s, 1, i - 1)>> \o Split(SubSeq(s, i + 1, Len(s)), sep)

\* base64.b64decode(...).decode("utf8") of one piece of the header: the
\* empty piece decodes to the empty text, a scheme word is not base64
B64Decode(piece) ==
    IF piece = <<>> THEN [ok |-> TRUE, text |-> <<>>]
    ELSE IF Len(piece) = 1 /\ piece[1].kind = "b64"
    THEN [ok |-> TRUE, text |-> piece[1].text]
    ELSE [ok |-> FALSE, text |-> <<>>]

\* Server.handshake: its return value, or the exception that leaves it
handshake(h) ==
    IF ~h.present \/ h.value = <<>> THEN "401"
    ELSE LET pieces == Split(h.value, Space) IN
         IF Len(pieces) # 2 THEN "ValueError"
         ELSE LET dec == B64Decode(pieces[2]) IN
              IF ~dec.ok THEN "binascii.Error"
              ELSE LET up == Split(dec.text, ":") IN
                   IF Len(up) # 2 THEN "ValueError"
                   ELSE IF up[1] \in DOMAIN userlist
                           /\ up[2] = userlist[up[1]]
                        THEN "None"
                        ELSE "401"

\* the upgrade requests: no Authorization header, or a header value (which
\* the HTTP parser has trimmed) of no, one or two pieces
HeaderValues ==
    {<<>>}
    \cup {<<x>> : x \in Words \cup Blobs}
    \cup {<<x, Space, y>> : x \in Words, y \in Words \cup Blobs}
    \cup {<<x, Space, Space, y>> : x \in Words, y \in Blobs}
Requests ==
    {[present |-> FALSE, value |-> <<>>, resp |-> "none"]}
    \cup {[present |-> TRUE, value |-> v, resp |-> "none"] : v \in HeaderValues}

\* websockets.serve(self._link, process_request=self.handshake): _link
\* runs when handshake has returned None; a response or an exception ends
\* the connection
ProcessRequest ==
    /\ sv.pc = "handshake"
    /\ hs' = [hs EXCEPT !.resp = handshake(hs)]
    /\ IF handshake(hs) = "None"
       THEN /\ sv' = [sv EXCEPT !.pc = "wait_open"]
            /\ UNCHANGED sock_closed
       ELSE SrvCloses(sv)
    /\ UNCHANGED <<free_pool, c2s, s2c, cl, poolVars, extVars>>

\* the peer whose upgrade was accepted sends an OPEN
PeerOpens(h) ==
    /\ sv.pc = "wait_open"
    /\ c2s = <<>>
    /\ ForeignToServer(Open(h))

AuthInit ==
    /\ free_pool = {}
    /\ sock_closed = [c \in Conns |-> FALSE]
    /\ nconn = Cardinality({WsConn})
    /\ bg = 0
    /\ caller = [k \in Callers |-> [pc |-> "idle", sock |-> NoSock]]
    /\ cp = CpAt("sleep", NoSock, {}, 0)
    /\ c2s = <<>>
    /\ s2c = <<>>
    /\ cl = ClientIdle
    /\ sv = [ServerIdle EXCEPT !.pc = "handshake"]
    /\ hs \in Requests
    /\ ExtIdle

AuthNext ==
    \/ ProcessRequest
    \/ \E h \in Hosts : PeerOpens(h)
    \/ SrvRecvOpen
    \/ SrvDialed

SpecAuth == AuthInit /\ [][AuthNext]_vars

----------------------------------------------------------------------------
(***************************************************************************)
(* Rule engine (websocks/rule.py): FilterRule, judge, add, cache           *)
(***************************************************************************)

\* the hosts asked about: names over the characters a b c and the dot, a
\* name the built-in black list matches, and one IP literal of each kind
PrivateIP == <<"10.0.0.1">>
CnIP == <<"1.2.4.8">>
PublicIP == <<"8.8.8.8">>
IPLiterals == {PrivateIP, CnIP, PublicIP}
Names ==
    {<<"a">>, <<"b", ".", "a">>, <<"c", ".", "a">>, <<"a", "b">>,
     <<"b", "a">>, <<"google.com">>}
HostNames == Names \cup IPLiterals

\* ipaddress.ip_address(host) succeeds; address.is_private; the networks
\* of cn-ip.txt that hold the address
IsIP(host) == host \in IPLiterals
is_private(host) == host = PrivateIP
CN_IPv4 == {CnIP}

\* the rule lines the files are made of
AnchorA == <<"|", "|", "a">>                       \* ||a
ExceptBA == <<"@", "@", "|", "|", "b", ".", "a">>  \* @@||b.a
ExceptA == <<"@", "@", "|", "|", "a">>             \* @@||a
DotA == <<".", "a">>                               \* .a
PrefixA == <<"a">>                                 \* a
CommentA == <<"!", "a">>                           \* !a

\* the rule files of a run: a whitelist, a GFW list, the user's files
Whitelists == {<<>>, <<ExceptA>>, <<AnchorA>>}
GfwLists ==
    {<<>>, <<AnchorA>>, <<AnchorA, ExceptBA>>, <<ExceptBA, AnchorA>>,
     <<DotA>>, <<PrefixA>>, <<CommentA, <<>>, ExceptA>>,
     <<ExceptA, AnchorA>>, <<PrefixA, ExceptA>>}
Yourselfs == {<<>>, << <<ExceptA>> >>, << <<AnchorA>> >>, << <<>>, <<DotA>> >>}
RuleFiles ==
    [whitelist : Whitelists, gfwlist : GfwLists, yourselfs : Yourselfs]

Negate(r) == IF r = "True" THEN "False" ELSE "True"

\* FilterRule._judge(line, host): True, False or None
RECURSIVE _judge(_, _)
_judge(line, host) ==
    IF StartsWith(line, <<"!">>) THEN "None"
    ELSE IF StartsWith(line, <<"|", "|">>)
    THEN IF StartsWith(host, From(line, 3)) THEN "True" ELSE "None"
    ELSE IF line[1] = "."
    THEN IF EndsWith(host, line) THEN "True" ELSE "None"
    ELSE IF StartsWith(line, <<"@", "@">>)
    THEN LET r == _judge(From(line, 3), host)
         IN  IF r # "None" THEN Negate(r) ELSE "None"
    ELSE IF StartsWith(host, line) THEN "True" ELSE "None"

\* FilterRule._judge_from_file: the first line with a decision decides
RECURSIVE _judge_from_fileLast(_, _)
_judge_from_fileLast(file, host) ==
    IF file = <<>> THEN "None"
    ELSE LET rest == _judge_from_fileLast(Tail(file), host)
         IN  IF rest # "None" THEN rest
             ELSE IF Head(file) = <<>> THEN "None"
             ELSE _judge(Head(file), host)
RECURSIVE _judge_from_file(_, _)
_judge_from_file(file, host) ==
    IF file = <<>> THEN "None"
    ELSE IF Head(file) = <<>> THEN _judge_from_file(Tail(file), host)
    ELSE LET result == _judge(Head(file), host)
         IN  IF result # "None" THEN result
             ELSE _judge_from_file(Tail(file), host)

\* FilterRule._judge_yourself: the user's files in their order
RECURSIVE _judge_yourself(_, _)
_judge_yourself(yourselfs, host) ==
    IF yourselfs = <<>> THEN "None"
    ELSE LET result == _judge_from_file(Head(yourselfs), host)
         IN  IF result # "None" THEN result
             ELSE _judge_yourself(Tail(yourselfs), host)

\* FilterRule.black_list: r".*?google\.(...|com|...)" and
\* r".*?blogspot\.[A-Za-z0-9-]+" matched from the start of the host
black_list(host) == \E i \in 1..Len(host) : host[i] = "google.com"

\* the file FilterRule.judge reads first, second and third
LookupOrder(f) == <<f.whitelist, f.gfwlist>> \o f.yourselfs

\* FilterRule.judge(host)
FilterRule_judgeDefaultsDirect(f, host) ==
    LET result == _judge_yourself(LookupOrder(f), host)
    IN  IF result # "None" THEN result
        ELSE IF black_list(host) THEN "True" ELSE "False"
FilterRule_judge(f, host) ==
    LET result == _judge_yourself(LookupOrder(f), host)
    IN  IF result # "None" THEN result
        ELSE IF black_list(host) THEN "True" ELSE "None"

\* rule.judge(host): its return value
judgeNoCache(f, c, host) ==
    IF IsIP(host) /\ (is_private(host) \/ host \in CN_IPv4) THEN "False"
    ELSE FilterRule_judge(f, host)
judgeCacheFirst(f, c, host) ==
    IF host \in c THEN "True"
    ELSE IF IsIP(host) /\ (is_private(host) \/ host \in CN_IPv4) THEN "False"
    ELSE FilterRule_judge(f, host)
judge(f, c, host) ==
    IF IsIP(host) /\ (is_private(host) \/ host \in CN_IPv4) THEN "False"
    ELSE IF host \in c THEN "True"
    ELSE FilterRule_judge(f, host)

\* rule.judge(host): the cache it leaves
MemoizedAll(f, c, host) ==
    IF judge(f, c, host) # "None" THEN c \cup {host} ELSE c
Memoized(f, c, host) ==
    IF judge(f, c, host) = "True" THEN c \cup {host} ELSE c

\* rule.add(host)
addOnly(c, host) == {host}
add(c, host) == c \cup {host}

RuleUnchanged ==
    UNCHANGED <<free_pool, sock_closed, poolVars, tunnelVars, files, cr, br, hd>>

\* a call of rule.judge
JudgeCall(host) ==
    /\ call.n < MaxCalls
    /\ call' = [op |-> "judge", host |-> host,
                result |-> judge(files, cache, host), n |-> call.n + 1]
    /\ cache' = Memoized(files, cache, host)
    /\ RuleUnchanged

\* a call of rule.add
AddCall(host) ==
    /\ call.n < MaxCalls
    /\ call' = [op |-> "add", host |-> host, result |-> "None",
                n |-> call.n + 1]
    /\ cache' = add(cache, host)
    /\ RuleUnchanged

RuleInit ==
    /\ free_pool = {}
    /\ sock_closed = [c \in Conns |-> FALSE]
    /\ nconn = 0
    /\ bg = 0
    /\ caller = [k \in Callers |-> [pc |-> "idle", sock |-> NoSock]]
    /\ cp = CpAt("sleep", NoSock, {}, 0)
    /\ c2s = <<>>
    /\ s2c = <<>>
    /\ cl = ClientIdle
    /\ sv = ServerIdle
    /\ hs = Accepted
    /\ files \in RuleFiles
    /\ cache = {}
    /\ call = NoCall
    /\ cr = CrIdle
    /\ br = BrIdle
    /\ hd = HdIdle

RuleNext ==
    \/ \E host \in HostNames : JudgeCall(host)
    \/ \E host \in HostNames : AddCall(host)

\* the rule files of the routing runs
RouteFiles ==
    [whitelist : {<<>>, <<ExceptA>>},
     gfwlist : {<<>>, <<AnchorA>>, <<DotA>>},
     yourselfs : {<<>>}]

SpecRule == RuleInit /\ [][RuleNext]_vars

----------------------------------------------------------------------------
(***************************************************************************)
(* Routing: Client.connect_remote (websocks/client.py)                     *)
(***************************************************************************)

Policies == {"AUTO", "PROXY", "DIRECT", "BLACK", "WHITE"}

\* the address a DNS answer holds, and the local `ip` before any assignment
ResolvedIP == <<"93.184.216.34">>
Unbound == <<"unbound">>

\* self.proxy_policy not in ("PROXY", "DIRECT") is False
FixedPolicyDirectOnly(policy) == policy = "DIRECT"
FixedPolicy(policy) == policy \in {"PROXY", "DIRECT"}

\* need_proxy = self.proxy_policy == "PROXY"
PolicyNeedTunnel(policy) == "True"
PolicyNeed(policy) == IF policy = "PROXY" THEN "True" ELSE "False"

\* need_proxy of an IP literal: False if it is private, else rule.judge
NeedOfIP(f, c, host) == IF is_private(host) THEN "False" ELSE judge(f, c, host)

\* need_proxy of a name: True if no address was found, else rule.judge
NeedOfName(f, c, host, ip) == IF ip = host THEN "True" ELSE judge(f, c, host)

\* BLACK: unknown is not proxied; WHITE: unknown is proxied
BlackWhiteOff(policy, need) == need
BlackWhite(policy, need) ==
    IF policy \in {"BLACK", "WHITE"} /\ need = "None"
    THEN IF policy = "WHITE" THEN "True" ELSE "False"
    ELSE need

\* the dial connect_remote starts once need_proxy is known.  The last
\* branch reads `ip`, which the PROXY / DIRECT branch never assigns
DialsAlwaysTry(c, need, ip) ==
    IF need = "True"
    THEN [c EXCEPT !.pc = "tunnel", !.need = need, !.ip = ip,
                   !.dialed = @ \cup {"tunnel"}]
    ELSE IF ip = Unbound
    THEN [c EXCEPT !.pc = "done", !.need = need, !.ip = ip,
                   !.remote = "UnboundLocalError"]
    ELSE [c EXCEPT !.pc = "try_direct", !.need = need, !.ip = ip,
                   !.dialed = @ \cup {"direct"}]
Dials(c, need, ip) ==
    IF need = "True"
    THEN [c EXCEPT !.pc = "tunnel", !.need = need, !.ip = ip,
                   !.dialed = @ \cup {"tunnel"}]
    ELSE IF ip = Unbound
    THEN [c EXCEPT !.pc = "done", !.need = need, !.ip = ip,
                   !.remote = "UnboundLocalError"]
    ELSE IF need = "None"
    THEN [c EXCEPT !.pc = "try_direct", !.need = need, !.ip = ip,
                   !.dialed = @ \cup {"direct"}]
    ELSE [c EXCEPT !.pc = "direct", !.need = need, !.ip = ip,
                   !.dialed = @ \cup {"direct"}]

RouteUnchanged ==
    UNCHANGED <<free_pool, sock_closed, poolVars, tunnelVars, files, call, br,
               hd>>

\* connect_remote(host, port) up to its first await
ConnectRemote(host) ==
    /\ cr.pc \in {"idle", "done"}
    /\ cr.n < MaxConnects
    /\ LET c == [CrIdle EXCEPT !.policy = cr.policy, !.host = host,
                                !.n = cr.n + 1]
       IN  IF FixedPolicy(cr.policy)
           THEN /\ cr' = Dials(c, PolicyNeed(cr.policy), Unbound)
                /\ UNCHANGED cache
           ELSE IF IsIP(host)
           THEN /\ cr' = Dials(c, BlackWhite(cr.policy,
                                             NeedOfIP(files, cache, host)),
                               host)
                /\ cache' = IF is_private(host) THEN cache
                            ELSE Memoized(files, cache, host)
           ELSE /\ cr' = [c EXCEPT !.pc = "dns"]
                /\ UNCHANGED cache
    /\ RouteUnchanged

\* query_ipv4 / query_ipv6 have answered: an address, or none
Resolved(found) ==
    /\ cr.pc = "dns"
    /\ LET ip == IF found THEN ResolvedIP ELSE cr.host
       IN  /\ cr' = Dials(cr, BlackWhite(cr.policy,
                                         NeedOfName(files, cache, cr.host, ip)),
                          ip)
           /\ cache' = IF ip = cr.host THEN cache
                       ELSE Memoized(files, cache, cr.host)
    /\ RouteUnchanged

\* how WebSocket.create_connection ends: it returns the tunnel, or raises
\* WebSocksRefused (ALLOW false), WebSocksImplementationError (an answer
\* that is not the expected text frame), or what Pool.acquire lets through
\* when the pool is empty and websockets.connect times out
TunnelOutcomes ==
    {"WebSocket", "WebSocksRefused", "WebSocksImplementationError",
     "TimeoutError"}

\* WebSocket.create_connection has returned, or raised
TunnelDialed(outcome) ==
    /\ cr.pc = "tunnel"
    /\ cr' = [cr EXCEPT !.pc = "done", !.remote = outcome]
    /\ UNCHANGED cache
    /\ RouteUnchanged

\* need_proxy is False: TCPSocket.create_connection has returned, or raised
DirectDialed(ok) ==
    /\ cr.pc = "direct"
    /\ cr' = [cr EXCEPT !.pc = "done",
                        !.remote = IF ok THEN "TCPSocket" ELSE "OSError"]
    /\ UNCHANGED cache
    /\ RouteUnchanged

\* need_proxy is None: the direct dial within 2.3 s has given a socket that
\* is still open 1 ms later, or has failed, timed out or been reset, and
\* then connect_remote dials the tunnel
DirectTried(ok) ==
    /\ cr.pc = "try_direct"
    /\ cr' = IF ok
             THEN [cr EXCEPT !.pc = "done", !.remote = "TCPSocket"]
             ELSE [cr EXCEPT !.pc = "tunnel", !.dialed = @ \cup {"tunnel"}]
    /\ UNCHANGED cache
    /\ RouteUnchanged

\* rule.add called from outside connect_remote
RouteAdd(host) ==
    /\ cr.pc = "idle"
    /\ call.n < MaxAdds
    /\ call' = [op |-> "add", host |-> host, result |-> "None",
                n |-> call.n + 1]
    /\ cache' = add(cache, host)
    /\ UNCHANGED <<free_pool, sock_closed, poolVars, tunnelVars, files, cr, br,
                   hd>>

RouteInit ==
    /\ free_pool = {}
    /\ sock_closed = [c \in Conns |-> FALSE]
    /\ nconn = 0
    /\ bg = 0
    /\ caller = [k \in Callers |-> [pc |-> "idle", sock |-> NoSock]]
    /\ cp = CpAt("sleep", NoSock, {}, 0)
    /\ c2s = <<>>
    /\ s2c = <<>>
    /\ cl = ClientIdle
    /\ sv = ServerIdle
    /\ hs = Accepted
    /\ files \in RouteFiles
    /\ cache = {}
    /\ call = NoCall
    /\ \E policy \in Policies : cr = [CrIdle EXCEPT !.policy = policy]
    /\ br = BrIdle
    /\ hd = HdIdle

RouteNext ==
    \/ \E host \in HostNames : ConnectRemote(host)
    \/ \E found \in BOOLEAN : Resolved(found)
    \/ \E outcome \in TunnelOutcomes : TunnelDialed(outcome)
    \/ \E ok \in BOOLEAN : DirectDialed(ok)
    \/ \E ok \in BOOLEAN : DirectTried(ok)
    \/ \E host \in HostNames : RouteAdd(host)

SpecRoute == RouteInit /\ [][RouteNext]_vars

----------------------------------------------------------------------------
(***************************************************************************)
(* The copy loops of a bridge: Client.bridge._ (websocks/client.py) and    *)
(* bridge._bridge (websocks/server.py), each run as a pair by onlyfirst    *)
(***************************************************************************)

Bridges == {"client", "server"}

\* the chunks of a direction are numbered in the order the sender gives them
NextChunk(read) == Len(read) + 1

\* receiver.send(data): data is the chunk recv returned last
SentTwice(read, written) ==
    Append(Append(written, read[Len(read)]), read[Len(read)])
Sent(read, written) == Append(written, read[Len(read)])

\* how a copy task ends when recv or send raises an OSError: Client.bridge._
\* catches it and returns, bridge._bridge lets it out of the task
Raised(kind) == IF kind = "client" THEN "ok" ELSE "OSError"

BridgeUnchanged ==
    UNCHANGED <<free_pool, sock_closed, poolVars, tunnelVars, files, cache,
                call, cr, hd>>

\* onlyfirst(_(s0, s1), _(s1, s0)): both tasks are created
BridgeStart(kind) ==
    /\ br.kind = "none"
    /\ br' = [kind |-> kind, of |-> NewBridge,
              task |-> [t \in Tasks |->
                           [pc |-> "recv", read |-> <<>>, written |-> <<>>]]]
    /\ BridgeUnchanged

\* data = await sender.recv() returns a chunk; the task goes on to send it
BrRecv(t) ==
    /\ br.of.st[t] = "run"
    /\ br.task[t].pc = "recv"
    /\ Len(br.task[t].read) < MaxChunks
    /\ br' = [br EXCEPT !.task[t].pc = "send",
                        !.task[t].read = Append(@, NextChunk(@))]
    /\ BridgeUnchanged

\* recv returns b"": the task returns
BrEof(t) ==
    /\ br.of.st[t] = "run"
    /\ br.task[t].pc = "recv"
    /\ br' = [br EXCEPT !.task[t].pc = "eof", !.of = TaskEnds(@, t, "ok")]
    /\ BridgeUnchanged

\* await receiver.send(data) returns
BrSent(t) ==
    /\ br.of.st[t] = "run"
    /\ br.task[t].pc = "send"
    /\ br' = [br EXCEPT !.task[t].pc = "recv",
                        !.task[t].written = Sent(br.task[t].read, @)]
    /\ BridgeUnchanged

\* recv or send raises: an OSError, or (a text frame on the way) another
\* exception, which no copy loop catches
BrRaises(t, oserror) ==
    /\ br.of.st[t] = "run"
    /\ br.task[t].pc \in {"recv", "send"}
    /\ br' = [br EXCEPT !.task[t].pc = "done",
                        !.of = TaskEnds(@, t, IF oserror THEN Raised(br.kind)
                                              ELSE "TypeError")]
    /\ BridgeUnchanged

\* the done callback of an ended task.  The tasks it cancels act no more; a
\* cancelled task that was inside send has written its chunk or has not
BrCallback(t, flushed) ==
    /\ t \in br.of.cb
    /\ LET o == DoneCallback(br.of, t)
           hit == {x \in Tasks : br.of.st[x] = "run" /\ o.st[x] = "cancelled"}
       IN  /\ flushed \subseteq {x \in hit : br.task[x].pc = "send"}
           /\ br' = [br EXCEPT
                       !.of = o,
                       !.task = [x \in Tasks |->
                           IF x \notin hit THEN br.task[x]
                           ELSE [pc |-> "cancelled",
                                 read |-> br.task[x].read,
                                 written |->
                                     IF x \in flushed
                                     THEN Sent(br.task[x].read,
                                               br.task[x].written)
                                     ELSE br.task[x].written]]]
    /\ BridgeUnchanged

BridgeInit ==
    /\ free_pool = {}
    /\ sock_closed = [c \in Conns |-> FALSE]
    /\ nconn = 0
    /\ bg = 0
    /\ caller = [k \in Callers |-> [pc |-> "idle", sock |-> NoSock]]
    /\ cp = CpAt("sleep", NoSock, {}, 0)
    /\ c2s = <<>>
    /\ s2c = <<>>
    /\ cl = ClientIdle
    /\ sv = ServerIdle
    /\ hs = Accepted
    /\ ExtIdle

BridgeNext ==
    \/ \E kind \in Bridges : BridgeStart(kind)
    \/ \E t \in Tasks : BrRecv(t)
    \/ \E t \in Tasks : BrEof(t)
    \/ \E t \in Tasks : BrSent(t)
    \/ \E t \in Tasks, oserror \in BOOLEAN : BrRaises(t, oserror)
    \/ \E t \in Tasks, flushed \in SUBSET Tasks : BrCallback(t, flushed)

SpecBridge == BridgeInit /\ [][BridgeNext]_vars

----------------------------------------------------------------------------
(***************************************************************************)
(* A local connection: Client.dispatch and the handlers Client.socks5 and  *)
(* Client.http_connect (websocks/client.py)                                *)
(***************************************************************************)

\* the authentication methods a SOCKS5 client may offer; 0 is "no
\* authentication"
MethodIds == {0, 1, 2, 3}

\* a SOCKS5 greeting: VER = 5, NMETHODS = n, then n method bytes
Greetings ==
    UNION {{<<5, n>> \o ms : ms \in [1..n -> MethodIds]} : n \in 1..MaxMethods}

\* a SOCKS5 request, by its CMD and ATYP bytes and the host its address
\* bytes spell
Socks5Requests ==
    {r \in [cmd : {1, 2}, atyp : {1, 3, 4, 5}, host : {<<"a">>, PublicIP}] :
        /\ r.atyp \in {1, 4} => IsIP(r.host)
        /\ r.atyp = 3 => ~IsIP(r.host)}

\* an HTTP CONNECT request: the request line in units (the method, the
\* space, the characters of host:port, the version) and the blank line that
\* ends the headers
CRLFCRLF == "CRLFCRLF"
HostPorts ==
    {<<"a", ":", "443">>, <<"8.8.8.8", ":", "443">>,
     <<"[", ":", ":", "1", "]", ":", "443">>}
ConnectRequests ==
    {<<"CONNECT", " ">> \o hp \o <<" ", "HTTP/1.1", CRLFCRLF>> : hp \in HostPorts}

\* what a client sends first; proto stands for its first byte, by which
\* dispatch picks the handler: 5, or the first letter of CONNECT
FirstPackets ==
    [proto : {"socks5"}, bytes : Greetings]
        \cup [proto : {"http_connect"}, bytes : ConnectRequests]

\* an exception leaves the handler: dispatch catches ConnectionError only,
\* and closes the local connection in its finally
Raise(h, exc) == [h EXCEPT !.pc = "raised", !.remote = exc]

\* sock.send(reply)
Reply(h, pc, reply) == [h EXCEPT !.pc = pc, !.out = Append(@, reply)]

\* socks5: the loop that waits for the method bytes, then the answer to the
\* greeting (data[2:] of Python starts at the third byte)
GreetingLoop(h) ==
    IF Len(h.data) < h.count + 2
    THEN [h EXCEPT !.pc = "greeting"]
    ELSE IF 0 \notin {h.data[i] : i \in 3..Len(h.data)}
    THEN Reply(h, "done", "05 FF")
    ELSE Reply(h, "request", "05 00")

\* socks5 after its first recv: method_count = data[2], the third byte
socks5(h) ==
    IF Len(h.data) < 3
    THEN Raise(h, "IndexError")
    ELSE GreetingLoop([h EXCEPT !.count = h.data[3]])

\* http_connect: the loop that reads up to the blank line, then the parsing
\* of the request line
http_connect(h) ==
    IF ~EndsWith(h.data, <<CRLFCRLF>>)
    THEN [h EXCEPT !.pc = "headers"]
    ELSE LET parts == Split(SubSeq(h.data, 1, Len(h.data) - 1), " ")
         IN  IF Len(parts) # 3
             THEN Raise(h, "ValueError")
             ELSE IF Len(Split(parts[2], ":")) # 2
             THEN Raise(h, "ValueError")
             ELSE [h EXCEPT !.pc = "connect",
                            !.host = Split(parts[2], ":")[1]]

Handler(h) == IF h.proto = "socks5" THEN socks5(h) ELSE http_connect(h)
HandlerLoop(h) ==
    IF h.proto = "socks5" THEN GreetingLoop(h) ELSE http_connect(h)

HandlerUnchanged ==
    UNCHANGED <<free_pool, sock_closed, poolVars, tunnelVars, files, cache,
                call, cr>>

\* dispatch(reader, writer) for a new local connection, up to the moment
\* the handler waits again; the first recv returns the first k bytes
Dispatch(pkt, k) ==
    /\ hd.pc \in {"idle", "done", "raised"}
    /\ hd.reqs < MaxRequests
    /\ cr.pc \in {"idle", "done"}
    /\ hd' = Handler([HdIdle EXCEPT
                         !.proto = pkt.proto,
                         !.data = SubSeq(pkt.bytes, 1, k),
                         !.rest = SubSeq(pkt.bytes, k + 1, Len(pkt.bytes)),
                         !.n = cr.n,
                         !.reqs = hd.reqs + 1])
    /\ br' = BrIdle
    /\ HandlerUnchanged

\* data += await sock.recv() in the loop of socks5 or http_connect: the
\* next k bytes the client has sent
MoreBytes(k) ==
    /\ hd.pc \in {"greeting", "headers"}
    /\ k \in 1..Len(hd.rest)
    /\ hd' = HandlerLoop([hd EXCEPT !.data = @ \o SubSeq(hd.rest, 1, k),
                                    !.rest = SubSeq(@, k + 1, Len(@))])
    /\ UNCHANGED br
    /\ HandlerUnchanged

\* the client closes its connection while the handler is in the loop of
\* socks5 or http_connect: StreamReader.read at end of file returns b"" at
\* once, without suspending, data is what it was and so is the loop's test;
\* the loop goes round for ever and the event loop runs nothing else
ClientEof ==
    /\ hd.pc \in {"greeting", "headers"}
    /\ hd' = [hd EXCEPT !.pc = "spinning"]
    /\ UNCHANGED br
    /\ HandlerUnchanged

\* socks5: the request has been received (data[1] is CMD, data[3] is ATYP);
\* req holds the first four bytes of what the second recv assigned to data
Socks5Request(r) ==
    /\ hd.pc = "request"
    /\ LET h == [hd EXCEPT !.req = <<5, r.cmd, 0, r.atyp>>]
       IN  hd' = IF r.cmd # 1
                 THEN Reply(h, "done", "05 07 00")
                 ELSE IF r.atyp \in {1, 3, 4}
                 THEN [h EXCEPT !.pc = "connect", !.host = r.host]
                 ELSE Reply(h, "done", "05 08 00")
    /\ UNCHANGED br
    /\ HandlerUnchanged

\* the handler's call of connect_remote begins
HandlerConnects ==
    /\ hd.pc = "connect"
    /\ cr.n = hd.n
    /\ ConnectRemote(hd.host)

\* the sockets connect_remote returns, and what it raises that is an OSError
Sockets == {"WebSocket", "TCPSocket"}
IsOSError(r) == r \in {"OSError", "WebSocksRefused"}

RepliedSuccess(h, r) ==
    [Reply(h, "bridge", IF h.proto = "socks5" THEN "05 00 00" ELSE "200")
        EXCEPT !.remote = "TCPSocket"]

\* what the handler sends once connect_remote has returned or raised.
\* http_connect handles asyncio.TimeoutError and OSError; socks5 handles
\* every Exception
Replied(h, r) ==
    IF h.proto = "socks5"
    THEN IF r \in Sockets
         THEN [Reply(h, "bridge", "05 00 00") EXCEPT !.remote = r]
         ELSE Reply(h, "done", "05 01 00")
    ELSE IF r \in Sockets
         THEN [Reply(h, "bridge", "200") EXCEPT !.remote = r]
         ELSE IF r = "TimeoutError" THEN Reply(h, "done", "504")
         ELSE IF IsOSError(r) THEN Reply(h, "done", "502")
         ELSE Raise(h, r)

\* TCPSocket.send of the reply raises ConnectionResetError at drain, the
\* client having gone while connect_remote ran: the exception leaves the
\* handler after the write, and a connection that was returned stays as it is
ReplyFails(h, r) == [Replied(h, r) EXCEPT !.pc = "raised"]

\* connect_remote has ended: the reply to the client, sent or not
HandlerReplies(sent) ==
    /\ hd.pc = "connect"
    /\ cr.pc = "done"
    /\ cr.n = hd.n + 1
    /\ hd' = IF sent THEN Replied(hd, cr.remote) ELSE ReplyFails(hd, cr.remote)
    /\ UNCHANGED br
    /\ HandlerUnchanged

\* await self.bridge(remote, sock) has returned: remote.close()
HandlerBridged ==
    /\ hd.pc = "bridge"
    /\ br.of.res = "ok"
    /\ hd' = [hd EXCEPT !.pc = "done", !.remote = "closed"]
    /\ UNCHANGED br
    /\ HandlerUnchanged

HandlerInit ==
    /\ free_pool = {}
    /\ sock_closed = [c \in Conns |-> FALSE]
    /\ nconn = 0
    /\ bg = 0
    /\ caller = [k \in Callers |-> [pc |-> "idle", sock |-> NoSock]]
    /\ cp = CpAt("sleep", NoSock, {}, 0)
    /\ c2s = <<>>
    /\ s2c = <<>>
    /\ cl = ClientIdle
    /\ sv = ServerIdle
    /\ hs = Accepted
    /\ files = NoFiles
    /\ cache = {}
    /\ call = NoCall
    /\ \E policy \in Policies : cr = [CrIdle EXCEPT !.policy = policy]
    /\ br = BrIdle
    /\ hd = HdIdle

HandlerNext ==
    \/ \E pkt \in FirstPackets : \E k \in 1..Len(pkt.bytes) : Dispatch(pkt, k)
    \/ \E k \in 1..Len(hd.rest) : MoreBytes(k)
    \/ ClientEof
    \/ \E r \in Socks5Requests : Socks5Request(r)
    \/ HandlerConnects
    \/ hd.pc = "connect" /\ \E found \in BOOLEAN : Resolved(found)
    \/ hd.pc = "connect" /\ \E outcome \in TunnelOutcomes : TunnelDialed(outcome)
    \/ hd.pc = "connect" /\ \E ok \in BOOLEAN : DirectDialed(ok)
    \/ hd.pc = "connect" /\ \E ok \in BOOLEAN : DirectTried(ok)
    \/ \E sent \in BOOLEAN : HandlerReplies(sent)
    \/ hd.pc = "bridge" /\ BridgeStart("client")
    \/ hd.pc = "bridge" /\ \E t \in Tasks : BrRecv(t)
    \/ hd.pc = "bridge" /\ \E t \in Tasks : BrEof(t)
    \/ hd.pc = "bridge" /\ \E t \in Tasks : BrSent(t)
    \/ hd.pc = "bridge" /\ \E t \in Tasks, oserror \in BOOLEAN :
                               BrRaises(t, oserror)
    \/ hd.pc = "bridge" /\ \E t \in Tasks, flushed \in SUBSET Tasks :
                               BrCallback(t, flushed)
    \/ HandlerBridged

SpecHandler == HandlerInit /\ [][HandlerNext]_vars

----------------------------------------------------------------------------
(***************************************************************************)
(* Claims about the pool, checked under SpecPool                           *)
(***************************************************************************)

Holding(k) == caller[k].pc = "holding"

\* C1: a connection acquire has returned is held by one caller only: until
\* its holder releases it, it is not in the idle set and no other caller
\* holds it.
C1_NoSharedConnection ==
    \A k \in Callers :
        Holding(k) =>
            /\ caller[k].sock \notin free_pool
            /\ \A j \in Callers \ {k} :
                  Holding(j) => caller[j].sock # caller[k].sock

\* two callers hold connections at once while a third connection is idle
C1_Witness ==
    /\ \A k \in Callers : Holding(k)
    /\ free_pool # {}

\* C2: in the step in which acquire returns a connection to a caller, that
\* connection's closed flag is False.
C2_AcquireReturnsAlive ==
    [][\A k \in Callers :
          (~Holding(k) /\ caller'[k].pc = "holding")
              => ~sock_closed'[caller'[k].sock]]_vars

\* acquire has popped a connection that died while idle, and has returned a
\* live one to another caller
C2_Witness ==
    \E k, j \in Callers :
        /\ Holding(k)
        /\ ~sock_closed[caller[k].sock]
        /\ caller[j].pc = "acq_close"
        /\ sock_closed[caller[j].sock]

\* C3 as stated: the idle set holds at most 2*N connections in every state.
C3_IdleAtMostTwiceN == Cardinality(free_pool) <= 2 * InitSize

\* a step of clear_pool in which its trim loop exits
TrimLoopExits ==
    /\ cp' # cp
    /\ cp.pc \in {"sleep", "scan_close", "trim_close"}
    /\ cp'.pc \in {"sleep", "refill_create"}

\* C3 amended: whenever the trim loop of a maintenance tick exits, the idle
\* set holds at most 2*N connections at that moment.
C3_TrimmedToTwiceN ==
    [][TrimLoopExits => Cardinality(free_pool') <= 2 * InitSize]_vars

\* the trim has popped a surplus connection and left exactly 2*N idle
C3_Witness ==
    /\ cp.pc = "trim_close"
    /\ Cardinality(free_pool) = 2 * InitSize

----------------------------------------------------------------------------
(***************************************************************************)
(* Claims about the tunnel, checked under SpecTunnel or FairTunnel         *)
(***************************************************************************)

\* C4: a WebSocket that has carried a tunnel is in the idle set only when,
\* for its last tunnel, the client has sent its CLOSED frame and has
\* received the server's CLOSED frame, WebSocket.close having returned; no
\* other path out of WebSocket.close inserts it.
C4_PooledOnlyAfterCloseExchange ==
    (WsConn \in free_pool /\ cl.used) =>
        (cl.pc = "done" /\ cl.sentClose /\ cl.gotClose)

\* the WebSocket is idle again after a tunnel it carried
C4_Witness ==
    /\ WsConn \in free_pool
    /\ cl.used
    /\ cl.pc = "done"
    /\ ~WsClosed

\* one side of an open tunnel has stopped: the client's local TCP peer has
\* ended (the bridge's local task, or both tasks of http_default), or the
\* server's outbound TCP has ended
ClientStopped ==
    /\ cl.pc = "open"
    /\ \/ cl.kind = "bridge" /\ cl.of.st["up"] = "ok"
       \/ cl.kind = "http" /\ \A t \in Tasks : cl.of.st[t] # "run"
ServerStopped ==
    /\ cl.pc = "open"
    /\ sv.pc = "bridge"
    /\ sv.of.st["down"] = "ok"

\* C5: on a WebSocket that is not dropped, once either side of an open
\* tunnel has stopped, the client's WebSocket.close returns and the server
\* session comes back to waiting for an OPEN.
C5_BothSidesClose ==
    /\ (ClientStopped \/ ServerStopped) ~> (cl.pc = "done")
    /\ (ClientStopped \/ ServerStopped) ~> (sv.pc = "wait_open")

\* the server has answered an OPEN with ALLOW false
DenySent == \E i \in 1..Len(s2c) : s2c[i] = "DENY"

\* the CLOSE handshake after a denied OPEN is over: each side has sent its
\* CLOSE and consumed the other's, the WebSocket is open, nothing is in
\* flight and the server waits for an OPEN
DenyQuiescent ==
    /\ cl.pc = "refused"
    /\ cl.sentClose
    /\ cl.gotClose
    /\ sv.pc = "wait_open"
    /\ sv.prev = "denied"
    /\ c2s = <<>>
    /\ s2c = <<>>
    /\ ~WsClosed

\* C6: after an OPEN answered with ALLOW false, the CLOSE handshake
\* completes and leaves the WebSocket open, empty and with the server
\* waiting for an OPEN; and the OPEN for a dialable target that the server
\* reads next on that WebSocket is answered with ALLOW true.
C6_DenyThenReusable ==
    /\ DenySent ~> DenyQuiescent
    /\ [][(sv.pc = "dialing" /\ sv.prev = "denied" /\ Dialable(sv.host)
              /\ sv' # sv)
            => (sv'.pc = "bridge" /\ s2c' = Append(s2c, "ALLOW"))]_vars

\* an OPEN that followed a denied one on the same WebSocket is being served
C6_Witness ==
    /\ sv.pc = "bridge"
    /\ sv.prev = "denied"
    /\ s2c = <<"ALLOW">>

\* C7: when create_connection reports the refusal of a denied OPEN, the
\* still-alive WebSocket is back in the pool's idle set.
C7_DeniedSocketReturned ==
    (cl.pc = "refused" /\ ~WsClosed) => WsConn \in free_pool

\* C8: once the client has received, in an open tunnel, a text frame that
\* is not CLOSED, the WebSocket is never in the idle set again, and it is
\* closed when WebSocket.close has returned.
C8_BadTextAborts ==
    cl.badText =>
        /\ WsConn \notin free_pool
        /\ cl.pc = "done" => WsClosed

\* C9: once the server has read a malformed frame where it expected an
\* OPEN, or has handled a text frame other than CLOSED while bridging, the
\* session is over and the WebSocket closed.
C9_BadFrameTerminates ==
    /\ sv.badOpen => sv.pc = "closed"
    /\ (sv.badText /\ sv.of.cb = {}) => (sv.pc = "closed" /\ WsClosed)

----------------------------------------------------------------------------
(***************************************************************************)
(* Claims about the upgrade request, checked under SpecAuth                *)
(***************************************************************************)

\* the header carries the name of a user of userlist with its password
Authentic(h) ==
    /\ h.present
    /\ \E i \in 1..Len(h.value), u \in DOMAIN userlist :
          /\ h.value[i].kind = "b64"
          /\ h.value[i].text = u \o <<":">> \o userlist[u]

\* a header of the form `scheme credentials` whose credentials decode to
\* user-id ":" password, the user-id ending at the first colon
HasCredentials(h) ==
    /\ h.present
    /\ Len(h.value) = 3
    /\ h.value[1] \in Words
    /\ h.value[2] = Space
    /\ h.value[3].kind = "b64"
    /\ \E i \in 1..Len(h.value[3].text) : h.value[3].text[i] = ":"
FirstColon(t) ==
    CHOOSE i \in 1..Len(t) : t[i] = ":" /\ \A k \in 1..(i - 1) : t[k] # ":"
UserOf(h) ==
    SubSeq(h.value[3].text, 1, FirstColon(h.value[3].text) - 1)
PassOf(h) ==
    SubSeq(h.value[3].text, FirstColon(h.value[3].text) + 1,
           Len(h.value[3].text))
UnknownUser(h) == HasCredentials(h) /\ UserOf(h) \notin DOMAIN userlist
WrongPassword(h) ==
    /\ HasCredentials(h)
    /\ UserOf(h) \in DOMAIN userlist
    /\ PassOf(h) # userlist[UserOf(h)]

\* C10: a session runs (and so a target is dialed) only for an upgrade
\* whose Authorization header carries a user of userlist with the matching
\* password; and an upgrade with no header, an unknown user or a wrong
\* password, once processed, has been answered with 401 and has no session.
C10_OnlyAuthenticSessions ==
    /\ sv.pc \notin {"handshake", "closed"} => Authentic(hs)
    /\ (hs.resp # "none"
          /\ (~hs.present \/ UnknownUser(hs) \/ WrongPassword(hs)))
        => (hs.resp = "401" /\ sv.pc = "closed")

\* the first half of C10 alone
SessionOnlyIfAuthentic ==
    sv.pc \notin {"handshake", "closed"} => Authentic(hs)

----------------------------------------------------------------------------
(***************************************************************************)
(* Claims about routing, checked under SpecRoute                           *)
(***************************************************************************)

\* C11: with proxy_policy DIRECT a call of connect_remote never dials the
\* tunnel: WebSocket.create_connection is neither awaited nor the origin
\* of what the call returns or raises, for every host.
C11_DirectNeverTunnels ==
    cr.policy = "DIRECT" =>
        /\ "tunnel" \notin cr.dialed
        /\ cr.pc # "tunnel"
        /\ cr.remote \notin TunnelOutcomes

\* a call of connect_remote under DIRECT has ended
C11_Witness ==
    /\ cr.policy = "DIRECT"
    /\ cr.pc = "done"
    /\ cr.host \in Names

\* C12: with proxy_policy PROXY a call of connect_remote never dials the
\* destination directly, for every host, private IP literals included.
C12_ProxyNeverDirect ==
    cr.policy = "PROXY" =>
        /\ "direct" \notin cr.dialed
        /\ cr.pc \notin {"direct", "try_direct"}
        /\ cr.remote \notin {"TCPSocket", "OSError"}

\* under PROXY the tunnel has been dialed for a private IP literal
C12_Witness ==
    /\ cr.policy = "PROXY"
    /\ is_private(cr.host)
    /\ cr.remote = "WebSocket"

\* C13: in the modes AUTO, BLACK and WHITE a call of connect_remote for a
\* private IP literal dials directly and only directly, whatever the rule
\* files and the learned set hold; and rule.judge answers False for every
\* private IP literal.
C13_PrivateAlwaysDirect ==
    /\ (cr.policy \in {"AUTO", "BLACK", "WHITE"} /\ cr.pc # "idle"
           /\ is_private(cr.host))
        => /\ cr.dialed = {"direct"}
           /\ cr.pc \in {"direct", "done"}
           /\ cr.remote \in {"none", "TCPSocket", "OSError"}
    /\ \A h \in HostNames : is_private(h) => judge(files, cache, h) = "False"

\* a private IP literal of the learned set has been dialed directly
C13_Witness ==
    /\ cr.policy = "AUTO"
    /\ is_private(cr.host)
    /\ cr.host \in cache
    /\ cr.remote = "TCPSocket"

\* C14: in AUTO mode, when connect_remote has returned the tunnel after a
\* direct attempt that failed, the host is in the learned set.
C14_FallbackLearnsHost ==
    (cr.policy = "AUTO" /\ cr.pc = "done" /\ cr.remote = "WebSocket"
        /\ "direct" \in cr.dialed)
    => cr.host \in cache

----------------------------------------------------------------------------
(***************************************************************************)
(* Claims about the rule engine, checked under SpecRule                    *)
(***************************************************************************)

\* a step that is a call of rule.judge
JudgeStep == call'.n # call.n /\ call'.op = "judge"

\* an IP literal rule.judge answers False for before it reads the cache
LocalIP(host) == IsIP(host) /\ (is_private(host) \/ host \in CN_IPv4)

\* C15 as claimed: for every host of the learned set, IP literals of any
\* kind included, judge returns True.
C15_LearnedIsProxy ==
    \A h \in cache : judge(files, cache, h) = "True"

\* C15 (amended): a call of judge for a host that is in the learned set and
\* is neither a private IP literal nor an address of a CN network returns
\* True.
C15_LearnedNonLocalIsProxy ==
    [][(JudgeStep /\ call'.host \in cache /\ ~LocalIP(call'.host))
        => call'.result = "True"]_vars

\* judge has returned True for a host that only add has made Proxy
C15_Witness ==
    /\ call.op = "judge"
    /\ call.host \in cache
    /\ call.result = "True"
    /\ FilterRule_judge(files, call.host) = "False"

\* C16: a call of judge changes the answer of judge for no host, the host
\* of the call included: what judge returns for a host depends on the rule
\* files and on the hosts given to add, not on earlier calls of judge.
C16_JudgeIndependentOfHistory ==
    [][JudgeStep
        => \A h \in HostNames :
              judge(files, cache', h) = judge(files, cache, h)]_vars

\* judge has memoized a host and has been called again
C16_Witness ==
    /\ call.op = "judge"
    /\ call.n = MaxCalls
    /\ call.host \in cache
    /\ FilterRule_judge(files, call.host) = "True"

\* host equals suf or ends with "." followed by suf
DomainMatches(host, suf) == host = suf \/ EndsWith(host, <<".">> \o suf)

\* the files of the example: ||a then @@||b.a; and ||a alone
AnchorExample == [NoFiles EXCEPT !.gfwlist = <<AnchorA, ExceptBA>>]
AnchorOnly == [NoFiles EXCEPT !.gfwlist = <<AnchorA>>]

\* C17: a call of judge for a name that is not learned returns True under
\* the one rule ||a exactly when the name is a or ends with .a; and under
\* ||a then @@||b.a it returns True for c.a and False for b.a.
C17_DomainAnchorMatches ==
    [][(JudgeStep /\ call'.host \notin cache /\ call'.host \in Names
            /\ ~black_list(call'.host))
        => /\ files = AnchorOnly
                => (call'.result = "True"
                      <=> DomainMatches(call'.host, <<"a">>))
           /\ files = AnchorExample
                => /\ call'.host = <<"c", ".", "a">> => call'.result = "True"
                   /\ call'.host = <<"b", ".", "a">> => call'.result = "False"]_vars

\* the order the claim gives: user files, whitelist, GFW list
ClaimedOrder(f) == f.yourselfs \o <<f.whitelist, f.gfwlist>>

\* C18: a call of judge for a name that is not learned and that the files
\* decide returns the first decision found in the user's files, then the
\* whitelist, then the GFW list.
C18_UserFilesFirst ==
    [][(JudgeStep /\ call'.host \notin cache /\ call'.host \in Names
            /\ _judge_yourself(ClaimedOrder(files), call'.host) # "None")
        => call'.result = _judge_yourself(ClaimedOrder(files), call'.host)]_vars

\* no line of any rule file decides the host
NoLineMatches(f, host) ==
    \A i \in 1..Len(LookupOrder(f)) :
        \A j \in 1..Len(LookupOrder(f)[i]) :
            \/ LookupOrder(f)[i][j] = <<>>
            \/ _judge(LookupOrder(f)[i][j], host) = "None"

\* C19 as claimed: a call of judge for a host that is not learned, is not
\* an IP literal and that no line of any rule file matches returns None.
C19_UnmatchedIsUnknown ==
    [][(JudgeStep /\ call'.host \notin cache /\ ~IsIP(call'.host)
            /\ NoLineMatches(files, call'.host))
        => call'.result = "None"]_vars

\* C19 (amended): ... and that no pattern of the built-in black list
\* matches either returns None.
C19_UnmatchedUnlistedIsUnknown ==
    [][(JudgeStep /\ call'.host \notin cache /\ ~IsIP(call'.host)
            /\ NoLineMatches(files, call'.host)
            /\ ~black_list(call'.host))
        => call'.result = "None"]_vars

\* judge has returned None under rule files that hold rules
C19_Witness ==
    /\ call.op = "judge"
    /\ call.result = "None"
    /\ call.host \in Names
    /\ files.gfwlist # <<>>
    /\ files.whitelist # <<>>

----------------------------------------------------------------------------
(***************************************************************************)
(* Claims about the copy loops, checked under SpecBridge                   *)
(***************************************************************************)

IsPrefix(s, t) == Len(s) <= Len(t) /\ SubSeq(t, 1, Len(s)) = s

\* C20: in each direction of a bridge, client or server, what has been
\* written to the receiver is at every moment a prefix of what has been
\* read from the sender, also once the task of the direction has been
\* cancelled.
C20_WrittenIsPrefixOfRead ==
    \A t \in Tasks : IsPrefix(br.task[t].written, br.task[t].read)

\* a task was cancelled inside send after it had copied a chunk
C20_Witness ==
    \E t \in Tasks :
        /\ br.task[t].pc = "cancelled"
        /\ br.task[t].written # <<>>
        /\ Len(br.task[t].read) = MaxChunks

\* a task that has ended of itself, by returning or by raising
Completed(o, t) == o.st[t] \notin {"none", "run", "cancelled"}

\* C21: once the done callback of a task that completed, by returning or by
\* raising, has run, no other task of the onlyfirst pair is still running.
C21_CompletionCancelsOthers ==
    \A t \in Tasks :
        Completed(br.of, t) /\ t \notin br.of.cb
            => \A x \in Tasks \ {t} : br.of.st[x] # "run"

\* C22: after one direction of a bridge has observed EOF, the other
\* direction is not cancelled: it goes on forwarding until it observes EOF
\* itself, so nothing it has read stays unwritten.
C22_OtherDirectionDrains ==
    \A t \in Tasks :
        br.task[t].pc = "eof"
            => \A x \in Tasks \ {t} : br.task[x].pc # "cancelled"

----------------------------------------------------------------------------
(***************************************************************************)
(* Claims about the handlers of a local connection, checked under          *)
(* SpecHandler                                                             *)
(***************************************************************************)

\* the status the claim assigns to the way connect_remote ended
ClaimedStatus(r) ==
    IF r \in Sockets THEN "200" ELSE IF r = "TimeoutError" THEN "504" ELSE "502"

\* C23: once the connect_remote call of an HTTP CONNECT request has ended
\* after a dial, with a connection or with a failure, the client has been
\* sent exactly one status reply: 200 for a connection, 504 for a timeout,
\* 502 for every other failure; and a bridge runs only after the 200.
C23_ConnectGetsOneStatus ==
    /\ (/\ hd.proto = "http_connect"
        /\ hd.pc \notin {"headers", "connect"}
        /\ cr.pc = "done"
        /\ cr.n = hd.n + 1
        /\ cr.dialed # {})
           => hd.out = <<ClaimedStatus(cr.remote)>>
    /\ hd.proto = "http_connect" /\ br.kind # "none" => hd.out = <<"200">>

\* the methods a received greeting offers: the bytes after VER and NMETHODS
Offered(data) == {data[i] : i \in 3..Len(data)}

\* C24: once the socks5 handler has received a complete greeting it does
\* not wait for more bytes: it has answered 05 FF and ended if the method
\* list lacks 0x00, and has answered 05 00 if the list contains 0x00.
C24_GreetingAnswered ==
    hd.proto = "socks5" /\ hd.rest = <<>>
        => /\ hd.pc # "greeting"
           /\ hd.out # <<>>
           /\ IF 0 \in Offered(hd.data)
              THEN hd.out[1] = "05 00"
              ELSE hd.out = <<"05 FF">> /\ hd.pc = "done"

----------------------------------------------------------------------------
(***************************************************************************)
(* Further claims about the rule engine, checked under SpecRule            *)
(***************************************************************************)

\* C25: a call of rule.judge for an IP literal that is neither private nor
\* inside a CN network has returned True, and a call for a private IP
\* literal has returned a falsy result.
C25_PublicIPIsProxy ==
    call.op = "judge" /\ IsIP(call.host)
        => /\ ~LocalIP(call.host) => call.result = "True"
           /\ is_private(call.host) => call.result \in {"False", "None"}

----------------------------------------------------------------------------
(***************************************************************************)
(* Claims about the maintenance tick of the pool, checked under SpecPool   *)
(***************************************************************************)

\* a step of clear_pool that ends a maintenance tick: the task is back at
\* asyncio.sleep(7)
TickCompletes == cp' # cp /\ cp'.pc = "sleep"

\* C26: whenever a maintenance tick completes, the idle set holds at most
\* 2*N connections at that moment, whatever release calls and background
\* creates have run while the tick was suspended.
C26_TickEndsWithinTwiceN ==
    [][TickCompletes => Cardinality(free_pool') <= 2 * InitSize]_vars

\* the connections the dead-removal scan passes over in a step: those of
\* the snapshot it had still to visit and has not kept for later
ScanPassed ==
    IF cp' = cp \/ cp.pc \notin {"sleep", "scan_close"} THEN {}
    ELSE (IF cp.pc = "sleep" THEN free_pool ELSE cp.todo)
             \ (IF cp'.pc = "scan_close" THEN cp'.todo \cup {cp'.cur} ELSE {})

\* C27 as stated: when a maintenance tick in which no acquire, release or
\* background create runs completes, the idle set holds between N and 2*N
\* connections and none of them is dead.
C27_QuietTickLeavesLivePool ==
    [][TickCompletes
        => /\ InitSize <= Cardinality(free_pool')
           /\ Cardinality(free_pool') <= 2 * InitSize
           /\ \A c \in free_pool' : ~sock_closed'[c]]_vars

\* C27 (amended): in a maintenance tick in which no acquire, release or
\* background create runs, the scan passes over no connection that is dead
\* at that moment and removes the dead one it stopped at; every connection
\* the trim popped is closed and out of the idle set when its close returns;
\* and when the tick completes the idle set holds between N and 2*N
\* connections, exactly N if the tick ends in the refill loop and exactly
\* 2*N if it ends in the trim loop.
C27_QuietTickRestoresPool ==
    [][/\ \A c \in ScanPassed : ~sock_closed[c]
       /\ cp.pc = "scan_close" /\ cp' # cp => cp.cur \notin free_pool'
       /\ cp.pc = "trim_close" /\ cp' # cp
            => sock_closed'[cp.cur] /\ cp.cur \notin free_pool'
       /\ TickCompletes
            => /\ InitSize <= Cardinality(free_pool')
               /\ Cardinality(free_pool') <= 2 * InitSize
               /\ cp.pc = "refill_create"
                    => Cardinality(free_pool') = InitSize
               /\ cp.pc = "trim_close"
                    => Cardinality(free_pool') = 2 * InitSize]_vars

\* a tick has trimmed: the connection it popped is closed, 2*N stay idle
C27_Witness ==
    /\ cp.pc = "sleep"
    /\ cp.tick = 1
    /\ Cardinality(free_pool) = 2 * InitSize
    /\ \E c \in 1..nconn : c \notin free_pool /\ sock_closed[c]
    /\ \A k \in Callers : caller[k].pc = "idle"

\* the step in which a _create awaited by the refill loop returns without
\* a connection
RefillCreateFails == cp.pc = "refill_create" /\ cp' # cp /\ nconn' = nconn

\* C28: when a create of the refill loop fails, the tick ends: clear_pool
\* goes back to its sleep and creates again only in the next tick.
C28_FailedCreateEndsTick ==
    [][RefillCreateFails => cp'.pc = "sleep"]_vars

----------------------------------------------------------------------------
(***************************************************************************)
(* Further claims about routing, checked under SpecRoute                   *)
(***************************************************************************)

\* C29: a call of connect_remote dials the tunnel after a direct dial only
\* in AUTO mode with the decision Unknown; in that case a direct dial that
\* failed, timed out or was reset is followed by the tunnel dial, and a
\* direct dial that succeeded is the only dial; when the decision is Direct
\* the only dial is the direct one and its failure is what the call raises.
C29_FallbackOnlyWhenAutoUnknown ==
    /\ cr.dialed = {"direct", "tunnel"}
         => cr.policy = "AUTO" /\ cr.need = "None"
    /\ (cr.need = "None" /\ cr.pc \in {"tunnel", "done"})
         => /\ cr.policy = "AUTO"
            /\ IF cr.remote = "TCPSocket"
               THEN cr.dialed = {"direct"}
               ELSE cr.dialed = {"direct", "tunnel"}
                       /\ cr.remote \in {"none"} \cup TunnelOutcomes
    /\ (cr.need = "False" /\ cr.pc \in {"direct", "done"})
         => /\ "tunnel" \notin cr.dialed
            /\ cr.remote \in {"none", "TCPSocket", "OSError",
                              "UnboundLocalError"}

\* in AUTO mode the direct dial has failed and the tunnel has been returned
C29_Witness ==
    /\ cr.policy = "AUTO"
    /\ cr.need = "None"
    /\ cr.pc = "done"
    /\ cr.dialed = {"direct", "tunnel"}
    /\ cr.remote = "WebSocket"

\* the call of connect_remote has chosen its dial in BLACK or WHITE mode for
\* a host that is no private IP literal and that the rules do not decide
UnknownInBlackWhite ==
    /\ cr.policy \in {"BLACK", "WHITE"}
    /\ cr.pc \notin {"idle", "dns"}
    /\ ~is_private(cr.host)
    /\ judge(files, cache, cr.host) = "None"

\* the dial the mode prescribes for an Unknown host, and no other
DialsByMode ==
    /\ cr.dialed = IF cr.policy = "BLACK" THEN {"direct"} ELSE {"tunnel"}
    /\ cr.pc # "try_direct"

\* C30 as stated: for every host that is not a private IP literal and that
\* the rules leave Unknown, connect_remote dials only directly in BLACK
\* mode and only the tunnel in WHITE mode.
C30_UnknownFollowsMode == UnknownInBlackWhite => DialsByMode

\* C30 (amended): the same for every such host that is an IP literal or a
\* name for which DNS has given an address.
C30_ResolvedUnknownFollowsMode ==
    UnknownInBlackWhite /\ (IsIP(cr.host) \/ cr.ip # cr.host) => DialsByMode

\* in BLACK mode a resolved name the rules do not decide was dialed directly
C30_Witness ==
    /\ UnknownInBlackWhite
    /\ cr.policy = "BLACK"
    /\ cr.ip = ResolvedIP
    /\ cr.remote = "TCPSocket"

----------------------------------------------------------------------------
(***************************************************************************)
(* Claims about one rule file and about the learned set, checked under     *)
(* SpecRule                                                                *)
(***************************************************************************)

\* the kinds of line, and the test a rule that is no exception makes
IsComment(line) == StartsWith(line, <<"!">>)
IsException(line) == StartsWith(line, <<"@", "@">>)
RuleMatches(rule, host) ==
    IF StartsWith(rule, <<"|", "|">>) THEN StartsWith(host, From(rule, 3))
    ELSE IF rule[1] = "." THEN EndsWith(host, rule)
    ELSE StartsWith(host, rule)

\* the line matches the host: a rule by its test, an exception when its
\* inner rule does; a comment line and a blank line never
LineMatches(line, host) ==
    IF line = <<>> \/ IsComment(line) THEN FALSE
    ELSE IF IsException(line)
    THEN /\ ~IsComment(From(line, 3))
         /\ RuleMatches(From(line, 3), host)
    ELSE RuleMatches(line, host)

\* the decision of the first line of the file, in file order, that matches
FirstMatch(file, host) ==
    IF \A i \in 1..Len(file) : ~LineMatches(file[i], host) THEN "None"
    ELSE LET i == CHOOSE j \in 1..Len(file) :
                      /\ LineMatches(file[j], host)
                      /\ \A k \in 1..(j - 1) : ~LineMatches(file[k], host)
         IN  IF IsException(file[i]) THEN "False" ELSE "True"

\* C31: for every rule file and every host, _judge_from_file returns the
\* decision of the first line, in file order, that matches the host: True
\* for a rule, False for an exception; lines that are comments, blank or do
\* not match neither decide nor end the scan, and None is returned when no
\* line matches.
C31_FirstMatchingLineDecides ==
    \A i \in 1..Len(LookupOrder(files)) : \A host \in HostNames :
        _judge_from_file(LookupOrder(files)[i], host)
            = FirstMatch(LookupOrder(files)[i], host)

\* judge has answered from a file in which an exception precedes a rule
\* that matches the same host
C31_Witness ==
    /\ files.whitelist = <<>>
    /\ files.gfwlist = <<ExceptA, AnchorA>>
    /\ call.op = "judge"
    /\ call.host = <<"a">>
    /\ call.result = "False"

\* C32: no call of judge or add removes a host from the learned set; a
\* call of judge that has returned True for a host that is no IP literal
\* leaves the host in the learned set; and every call of judge for such a
\* host of the learned set returns True.
C32_LearnedSetOnlyGrows ==
    [][/\ cache \subseteq cache'
       /\ (JudgeStep /\ call'.result = "True" /\ ~IsIP(call'.host))
            => call'.host \in cache'
       /\ (JudgeStep /\ ~IsIP(call'.host) /\ call'.host \in cache)
            => call'.result = "True"]_vars

\* two names have been learned by two calls of judge
C32_Witness ==
    /\ Cardinality(cache) = 2
    /\ call.op = "judge"
    /\ call.result = "True"
    /\ ~IsIP(call.host)

----------------------------------------------------------------------------
(***************************************************************************)
(* Further claims about the handlers, checked under SpecHandler            *)
(***************************************************************************)

\* connect_remote has been called by the handler; it has ended
Dialing == cr.n > hd.n
DialEnded == cr.n = hd.n + 1 /\ cr.pc = "done" /\ hd.pc # "connect"

C39_HeaderLoopEnds == ~(hd.proto = "http_connect" /\ hd.pc = "spinning")

\* C38: when the socks5 or the http_connect handler has ended, by returning
\* or by an exception, the connection connect_remote returned to it, if
\* any, has been closed by remote.close().
C38_RemoteClosedAtEnd ==
    hd.pc \in {"done", "raised"} => hd.remote \notin Sockets

----------------------------------------------------------------------------
(***************************************************************************)
(* Further claims about the pool, checked under SpecPool                   *)
(***************************************************************************)

\* C34: no step inserts a dropped connection into the idle set, and when
\* the holder of a connection whose closed flag is set lets go of it, by
\* release or otherwise, the connection is not in the idle set afterwards.
C34_ReleaseDiscardsDropped ==
    [][/\ \A c \in free_pool' \ free_pool : ~sock_closed[c]
       /\ \A k \in Callers :
            (/\ caller[k].pc = "holding"
             /\ caller'[k].pc = "idle"
             /\ sock_closed[caller[k].sock])
                => caller[k].sock \notin free_pool']_vars

\* before the first maintenance tick, a dropped connection has been let go
\* and is not idle, while a live one has come back to the idle set
C34_Witness ==
    /\ cp.tick = 0
    /\ cp.pc = "sleep"
    /\ \A k \in Callers : caller[k].pc = "idle"
    /\ \E c \in 1..nconn : sock_closed[c] /\ c \notin free_pool
    /\ \E c \in free_pool : ~sock_closed[c]

\* C37: the maintenance task never ends on an exception: the removal of a
\* dead connection by the scan of clear_pool never raises KeyError, whatever
\* acquire has popped while the scan was suspended.
C37_MaintenanceNeverFails == cp.pc # "crashed"

----------------------------------------------------------------------------
(***************************************************************************)
(* Further claims about the tunnel, checked under SpecLink: the client and *)
(* the server of this repository at the two ends of a WebSocket that the   *)
(* network may drop at any moment                                          *)
(***************************************************************************)

LinkNext ==
    \/ FairNext
    \/ Drop(WsConn)

SpecLink == TunnelInit /\ [][LinkNext]_vars

\* what the server has still to read of the last tunnel is at most the
\* frames its wait for the client's CLOSED consumes: binary frames, then
\* that CLOSED
ServerDrained ==
    \/ sv.pc = "wait_open" /\ c2s = <<>>
    \/ /\ sv.pc = "wait_close"
       /\ c2s # <<>>
       /\ c2s[Len(c2s)] = "CLOSED"
       /\ \A i \in 1..(Len(c2s) - 1) : c2s[i] \in Binary

\* C35: while a live WebSocket that has carried a tunnel is in the idle set,
\* no frame for the client is undelivered and the server has nothing to read
\* before it is back at the top of its loop; and on a WebSocket used again
\* the frame the client reads after its OPEN is the answer to an OPEN, and
\* the frame the server reads at the top of its loop is an OPEN.
C35_ReusedSocketIsClean ==
    /\ (WsConn \in free_pool /\ cl.used /\ ~WsClosed)
          => (s2c = <<>> /\ ServerDrained)
    /\ (cl.pc = "wait_ack" /\ s2c # <<>>) => Head(s2c) \in {"ALLOW", "DENY"}
    /\ (sv.pc = "wait_open" /\ c2s # <<>>) => Head(c2s) \in OpenFrames

\* the second OPEN on the WebSocket has been answered
C35_Witness ==
    /\ sv.prev = "bridged"
    /\ cl.pc = "open"
    /\ cl.used
    /\ c2s = <<>>

----------------------------------------------------------------------------
(***************************************************************************)
(* A further claim about onlyfirst and the bridges, checked under          *)
(* SpecTunnel                                                              *)
(***************************************************************************)

\* every task of the onlyfirst pair has returned or has been cancelled
AllEnded(o) == \A t \in Tasks : o.st[t] \in {"ok", "cancelled"}

\* the step puts a binary frame at the end of the queue
SendsBinary(q, r) == Len(r) > Len(q) /\ r[Len(r)] \in Binary

\* C36: once the result of an onlyfirst pair is resolved, on the client or
\* on the server, each of its tasks has returned or has been cancelled; and
\* a side that has sent its CLOSED frame sends no binary frame until the
\* next tunnel.
C36_NoDataAfterClose ==
    [][/\ cl'.of.res # "none" => AllEnded(cl'.of)
       /\ sv'.of.res # "none" => AllEnded(sv'.of)
       /\ cl.sentClose /\ cl'.sentClose => ~SendsBinary(c2s, c2s')
       /\ sv.pc = "wait_close" => ~SendsBinary(s2c, s2c')]_vars

\* the client's bridge has returned after cancelling a copy task, and the
\* CLOSED frame of the client is on its way
C36_Witness ==
    /\ cl.kind = "bridge"
    /\ cl.of.res = "ok"
    /\ \E t \in Tasks : cl.of.st[t] = "cancelled"
    /\ cl.sentClose
    /\ c2s # <<>>
    /\ c2s[Len(c2s)] = "CLOSED"

====
